---- MODULE Spec2Model ----
(***************************************************************************)
(* Model of the bar-chart race engine (RaceLogic, race.js): discovery,     *)
(* metadata resolution, history pagination, timeline reconstruction and    *)
(* the playback scheduler with its timers.                                 *)
(*                                                                         *)
(* Representation of JavaScript values:                                    *)
(*   - an operator id is the sequence of its hexadecimal digit values      *)
(*     (shortened to two digits; id.slice(-2) is the whole of it);         *)
(*   - a string that the code inspects character by character (a display   *)
(*     name) is a sequence of one-character strings;                       *)
(*   - a decimal string (a wei amount) is the sequence of its digits, the  *)
(*     empty sequence standing for a missing (falsy) value;                *)
(*   - a date is the integer parseInt yields for the remote's canonical    *)
(*     decimal rendering of it.                                            *)
(***************************************************************************)
EXTENDS Integers, Sequences, FiniteSets, TLC

VARIABLES
    timelineData,      \* state.timelineData: sequence of frames
    operatorMetaMap,   \* state.operatorMetaMap: id -> [name, color]
    rawBuckets,        \* state.rawBuckets
    allOperatorIds,    \* state.allOperatorIds
    filterDeprecated,  \* state.filterDeprecated
    currentIndex,      \* state.currentIndex
    isPlaying,         \* state.isPlaying
    playbackSpeed,     \* state.playbackSpeed
    activeMetric,      \* state.activeMetric
    timer,             \* state.timer: id of the last scheduled tick, 0 = null
    hasInitialized,    \* state.hasInitialized
    els,               \* the DOM elements the code writes (visibility, slider)
    pendingTicks,      \* event loop: ids of the loop() timeouts not yet fired
    delays,            \* event loop: the delay each of them was scheduled with
    pendingRebuilds,   \* event loop: number of toggleFilter timeouts not yet fired
    loads,             \* event loop: the fetchData() calls suspended at an await
    remote,            \* the remote dataset: rows ordered ascending by date
    view,              \* the view displayed: "list" or "race"
    lastOp,            \* history: the handler that ran last
    rendered,          \* history: index of the frame the last handler drew, -1 = none
    staleTicks,        \* history: pending ticks scheduled before a later seek
    lastStale,         \* history: the last handler was a callback that predates
                       \*          a later seek (a tick) or stop/init (a fetch)
    prevIndex,         \* history: currentIndex when the last handler started
    gesture,           \* history: the position the slider's thumb was dragged to
                       \*          by the last handler, 0 when it was not the slider's
    details            \* the operator-details view: the fields of the application's
                       \*          state it uses, the intervals running, and the
                       \*          fetchAndRenderOperatorDetails() calls suspended

vars == <<timelineData, operatorMetaMap, rawBuckets, allOperatorIds,
          filterDeprecated, currentIndex, isPlaying, playbackSpeed,
          activeMetric, timer, hasInitialized, els, pendingTicks, delays,
          pendingRebuilds, loads, remote, view, lastOp, rendered, staleTicks,
          lastStale, prevIndex, gesture, details>>

(***************************************************************************)
(* Bounds of the model.  DISPLAY_COUNT and PAGE_SIZE are the program's     *)
(* constants 50 and 1000 scaled down so that truncation and a full page    *)
(* happen with a handful of rows.                                          *)
(***************************************************************************)
DISPLAY_COUNT == 2

PAGE_SIZE == 2

CHUNK_SIZE == 2

MaxObs == 3

MaxLoads == 2

MaxTicks == 2

MaxRebuilds == 1

\* The values drawn for the scale are m * 10^e with m up to MaxMantissa and
\* e between -MaxExponent and MaxExponent.
MaxMantissa == 40

MaxExponent == 2

SliderHtmlMax == 1

\* The discovery sub-queries ask for first: 75; the model asks for the
\* first TOP_FIRST, so that the limit cuts an answer of two rows.
TOP_FIRST == 1

\* The clock reads up to MaxIntervals snapshot intervals after the start
\* date, and the remote of the discovery holds up to MaxRows buckets.
MaxIntervals == 2

MaxRows == 2

\* Up to MaxCalls calls of fetchAndRenderOperatorDetails() are suspended at a
\* time, and setInterval() is called up to MaxHandles times.
MaxCalls == 2

MaxHandles == 3

(***************************************************************************)
(* Program constants.  Dates are counted from the start date, which is     *)
(* therefore 0; BAR_COLORS has 18 entries.                                 *)
(***************************************************************************)
START_DATE == 0

BarColorsLength == 18

SNAPSHOT_INTERVAL_DAYS == 15

\* The length of the window of a discovery sub-query, in seconds.
DayWindow == 86400

(***************************************************************************)
(* Small helpers.                                                          *)
(***************************************************************************)
Max(S) == CHOOSE x \in S : \A y \in S : y <= x

Min(S) == CHOOSE x \in S : \A y \in S : x <= y

Range(s) == {s[i] : i \in DOMAIN s}

Take(s, n) == SubSeq(s, 1, IF Len(s) < n THEN Len(s) ELSE n)

(***************************************************************************)
(* JavaScript primitives used by the reconstruction.                       *)
(***************************************************************************)
NoValue == <<>>

\* JS truthiness of a metric value: null, undefined and '' are falsy, every
\* non-empty string (also '0') is truthy.
Truthy(v) == v # NoValue

\* parseFloat of a string of decimal digits (values stay below 2^53).
RECURSIVE parseFloat(_)
parseFloat(s) ==
    IF Len(s) = 0 THEN 0
    ELSE 10 * parseFloat(SubSeq(s, 1, Len(s) - 1)) + s[Len(s)]

UpperCaseLetters == <<"A","B","C","D","E","F","G","H","I","J","K","L","M",
                      "N","O","P","Q","R","S","T","U","V","W","X","Y","Z">>

LowerCaseLetters == <<"a","b","c","d","e","f","g","h","i","j","k","l","m",
                      "n","o","p","q","r","s","t","u","v","w","x","y","z">>

\* The lower-case form of each upper-case letter.
LowerOf ==
    [c \in Range(UpperCaseLetters) |->
        LowerCaseLetters[CHOOSE k \in DOMAIN UpperCaseLetters : UpperCaseLetters[k] = c]]

\* String.prototype.toLowerCase
toLowerCase(str) ==
    [i \in DOMAIN str |-> IF str[i] \in DOMAIN LowerOf THEN LowerOf[str[i]] ELSE str[i]]

\* A JSON number held where a string is expected (a name such as 123).
JsonNumber == <<"number">>

\* typeof v === 'string'
IsString(v) == \A i \in DOMAIN v : v[i] # "number"

\* String.prototype.includes
includes(str, word) ==
    \E i \in 0..(Len(str) - Len(word)) : SubSeq(str, i + 1, i + Len(word)) = word

blacklist == << <<"o","l","d">>,
                <<"t","e","s","t","n","e","t">>,
                <<"d","e","p","r","e","c","a","t","e","d">> >>

\* The mutant of BarColorIndex: the value of the two digits is not reduced
\* modulo the length of the palette.
BarColorIndex_NoModulo(id) == 16 * id[Len(id) - 1] + id[Len(id)]

\* BAR_COLORS[parseInt(id.slice(-2), 16) % BAR_COLORS.length], as the index
BarColorIndex(id) ==
    (16 * id[Len(id) - 1] + id[Len(id)]) % BarColorsLength

(***************************************************************************)
(* processTimeline(buckets, operatorIds).                                  *)
(***************************************************************************)
\* Array.from(uniqueDates): the distinct dates in the order of their first
\* occurrence in buckets (a Set iterates in insertion order).
RECURSIVE uniqueDates(_)
uniqueDates(buckets) ==
    IF Len(buckets) = 0 THEN <<>>
    ELSE LET front == uniqueDates(SubSeq(buckets, 1, Len(buckets) - 1))
             d == buckets[Len(buckets)].date
         IN IF d \in Range(front) THEN front ELSE Append(front, d)

\* The mutant of SortAscending: the dates are left in insertion order.
SortAscending_Unsorted(s) == s

\* .sort((a,b) => a - b) on distinct numbers
RECURSIVE SortAscending(_)
SortAscending(s) ==
    IF Len(s) = 0 THEN <<>>
    ELSE LET m == Min(Range(s))
         IN <<m>> \o SortAscending(SelectSeq(s, LAMBDA x : x # m))

sortedDates(buckets) == SortAscending(uniqueDates(buckets))

\* bucketsByDate[d]: operator id -> {stake, earnings} of the last bucket of
\* that date and operator (a later bucket overwrites an earlier one).
bucketsByDate(buckets, d) ==
    LET idx == {i \in DOMAIN buckets : buckets[i].date = d}
        ids == {buckets[i].operator : i \in idx}
    IN [id \in ids |->
          LET last == Max({i \in idx : buckets[i].operator = id})
          IN [stake |-> buckets[last].valueWithoutEarnings,
              earnings |-> buckets[last].cumulativeEarningsWei]]

\* The mutant of SeedValues: the table is seeded with '1'.
SeedValues_One(operatorIds) ==
    [id \in Range(operatorIds) |-> [stake |-> <<1>>, earnings |-> <<1>>]]

\* lastKnownValues seeded with '0' for every discovered operator
SeedValues(operatorIds) ==
    [id \in Range(operatorIds) |-> [stake |-> <<0>>, earnings |-> <<0>>]]

\* The merge throws a TypeError when a bucket with a truthy metric names an
\* operator that lastKnownValues has no entry for.
MergeThrows(lastKnownValues, daysData) ==
    \E opId \in DOMAIN daysData :
        /\ opId \notin DOMAIN lastKnownValues
        /\ (Truthy(daysData[opId].stake) \/ Truthy(daysData[opId].earnings))

\* The mutant of MergeDay: a day's map replaces the table, an operator
\* absent from it falls back to '0' (no forward fill).
MergeDay_NoForwardFill(lastKnownValues, daysData) ==
    [id \in DOMAIN lastKnownValues |->
        IF id \in DOMAIN daysData /\ Truthy(daysData[id].stake)
                                  /\ Truthy(daysData[id].earnings)
        THEN daysData[id]
        ELSE [stake |-> <<0>>, earnings |-> <<0>>]]

\* The mutant of MergeDay: the record of the day replaces the record of the
\* operator, the metrics the day does not report included.
MergeDay_WholeRecord(lastKnownValues, daysData) ==
    [id \in DOMAIN lastKnownValues |->
        IF id \in DOMAIN daysData THEN daysData[id] ELSE lastKnownValues[id]]

\* Object.keys(daysData).forEach(...): overwrite the metrics the day reports
MergeDay(lastKnownValues, daysData) ==
    [id \in DOMAIN lastKnownValues |->
        IF id \in DOMAIN daysData
        THEN [stake |-> IF Truthy(daysData[id].stake)
                        THEN daysData[id].stake
                        ELSE lastKnownValues[id].stake,
              earnings |-> IF Truthy(daysData[id].earnings)
                           THEN daysData[id].earnings
                           ELSE lastKnownValues[id].earnings]
        ELSE lastKnownValues[id]]

\* operatorMetaMap[id].name.toLowerCase() throws a TypeError when the name
\* of an operator with metadata is not a string; it is called only while
\* the filter is on.
FilterThrows(operatorIds, metaMap, filter) ==
    /\ filter
    /\ \E i \in DOMAIN operatorIds :
          /\ operatorIds[i] \in DOMAIN metaMap
          /\ ~ IsString(metaMap[operatorIds[i]].name)

\* The mutant of validOperatorIds: an operator without metadata passes.
validOperatorIds_NoCacheCheck(operatorIds, metaMap, filter) ==
    SelectSeq(operatorIds, LAMBDA id :
        \/ id \notin DOMAIN metaMap
        \/ (filter =>
              LET name == toLowerCase(metaMap[id].name)
              IN ~ \E w \in DOMAIN blacklist : includes(name, blacklist[w])))

\* The mutant of validOperatorIds: the name is compared as it is written.
validOperatorIds_CaseSensitive(operatorIds, metaMap, filter) ==
    SelectSeq(operatorIds, LAMBDA id :
        /\ id \in DOMAIN metaMap
        /\ (filter =>
              ~ \E w \in DOMAIN blacklist : includes(metaMap[id].name, blacklist[w])))

\* operatorIds.filter(...)
validOperatorIds(operatorIds, metaMap, filter) ==
    SelectSeq(operatorIds, LAMBDA id :
        /\ id \in DOMAIN metaMap
        /\ (filter =>
              LET name == toLowerCase(metaMap[id].name)
              IN ~ \E w \in DOMAIN blacklist : includes(name, blacklist[w])))

\* .sort((a,b) => b.floatValue - a.floatValue): stable, descending
RECURSIVE SortDescending(_)
SortDescending(entries) ==
    IF Len(entries) = 0 THEN <<>>
    ELSE LET front == SortDescending(SubSeq(entries, 1, Len(entries) - 1))
             x == entries[Len(entries)]
             before == SelectSeq(front, LAMBDA e : e.floatValue >= x.floatValue)
             after == SelectSeq(front, LAMBDA e : e.floatValue < x.floatValue)
         IN before \o <<x>> \o after

\* The mutant of Truncate: the ranking is not cut to DISPLAY_COUNT.
Truncate_All(entries) == entries

\* .slice(0, DISPLAY_COUNT)
Truncate(entries) == Take(entries, DISPLAY_COUNT)

\* validOperatorIds.map(...).sort(...).slice(0, DISPLAY_COUNT) for one metric
Rankings(valid, lastKnownValues, metaMap, metric) ==
    LET entry(id) == [id |-> id,
                      valueWei |-> lastKnownValues[id][metric],
                      floatValue |-> parseFloat(lastKnownValues[id][metric]),
                      name |-> IF id \in DOMAIN metaMap THEN metaMap[id].name
                               ELSE NoValue,
                      color |-> IF id \in DOMAIN metaMap THEN metaMap[id].color
                                ELSE 0]
    IN Truncate(SortDescending([i \in DOMAIN valid |-> entry(valid[i])]))

\* sortedDates.map(date => ...): the frames from position i on, given the
\* running table; err is set when the callback throws.  valid is the result
\* of the filter of lines 387-394, which is the same for every date.
RECURSIVE BuildFrames(_, _, _, _, _, _)
BuildFrames(buckets, dates, i, lastKnownValues, valid, metaMap) ==
    IF i > Len(dates) THEN [err |-> FALSE, frames |-> <<>>]
    ELSE
      LET daysData == bucketsByDate(buckets, dates[i])
      IN IF MergeThrows(lastKnownValues, daysData)
         THEN [err |-> TRUE, frames |-> <<>>]
         ELSE
           LET merged == MergeDay(lastKnownValues, daysData)
               frame == [date |-> dates[i],
                         stake |-> Rankings(valid, merged, metaMap, "stake"),
                         earnings |-> Rankings(valid, merged, metaMap, "earnings")]
               rest == BuildFrames(buckets, dates, i + 1, merged, valid, metaMap)
           IN IF rest.err THEN rest
              ELSE [err |-> FALSE, frames |-> <<frame>> \o rest.frames]

\* The mutant of processTimeline: an empty list of dates is not an error.
processTimeline_NoCheck(buckets, operatorIds, metaMap, filter) ==
    IF FilterThrows(operatorIds, metaMap, filter)
    THEN [result |-> "TypeError", timeline |-> <<>>]
    ELSE LET built == BuildFrames(buckets, sortedDates(buckets), 1,
                                  SeedValues(operatorIds),
                                  validOperatorIds(operatorIds, metaMap, filter), metaMap)
         IN IF built.err THEN [result |-> "TypeError", timeline |-> <<>>]
            ELSE [result |-> "ok", timeline |-> built.frames]

\* processTimeline: "ok" with the new timelineData, or the error thrown
\* (state.timelineData is then left as it was).
processTimeline(buckets, operatorIds, metaMap, filter) ==
    LET dates == sortedDates(buckets)
    IN IF Len(dates) = 0 THEN [result |-> "No data found", timeline |-> <<>>]
       ELSE IF FilterThrows(operatorIds, metaMap, filter)
       THEN [result |-> "TypeError", timeline |-> <<>>]
       ELSE LET built == BuildFrames(buckets, dates, 1, SeedValues(operatorIds),
                                     validOperatorIds(operatorIds, metaMap, filter),
                                     metaMap)
            IN IF built.err THEN [result |-> "TypeError", timeline |-> <<>>]
               ELSE [result |-> "ok", timeline |-> built.frames]

(***************************************************************************)
(* Operators, their metadata and the rows a remote bucket can carry.       *)
(***************************************************************************)
OpA == <<10, 1>>

OpB == <<11, 2>>

OpC == <<12, 3>>

OpD == <<13, 4>>

OpE == <<14, 5>>

OpF == <<15, 6>>

OpG == <<1, 7>>

OpH == <<2, 8>>

ReconIds == <<OpA, OpB, OpC, OpD>>

ReconDates == {1, 2, 3}

\* (valueWithoutEarnings, cumulativeEarningsWei) of a bucket
BucketValues == { << <<5,0>>, <<2,0>> >>,
                  << <<1,0>>, NoValue >> }

Bucket(d, id, v) == [date |-> d, operator |-> id,
                     valueWithoutEarnings |-> v[1],
                     cumulativeEarningsWei |-> v[2]]

ReconBuckets ==
    {Bucket(d, id, v) : d \in ReconDates, id \in {OpA, OpB, OpC}, v \in BucketValues}

\* The remote holds one daily bucket per operator and date.
DistinctKeys(buckets) ==
    \A i, j \in DOMAIN buckets :
        (buckets[i].date = buckets[j].date /\ buckets[i].operator = buckets[j].operator)
            => i = j

\* A on days 1 and 3 with stakes 100 and 10, B on day 1 alone with stake 50.
ExampleBuckets == << Bucket(1, OpA, << <<1,0,0>>, <<5>> >>),
                     Bucket(1, OpB, << <<5,0>>, <<2,0>> >>),
                     Bucket(3, OpA, << <<1,0>>, NoValue >>) >>

\* Every sequence of up to MaxObs buckets, in any order, and the example.
RawInputs ==
    UNION {{s \in [1..n -> ReconBuckets] : DistinctKeys(s)} : n \in 0..MaxObs}
        \cup {ExampleBuckets}

(***************************************************************************)
(* The remote service.                                                     *)
(***************************************************************************)
\* The identifiers the discovery response carries: the operators of the
\* rows the remote holds, in the order of their first row.
RECURSIVE RemoteOperators(_)
RemoteOperators(rows) ==
    IF Len(rows) = 0 THEN <<>>
    ELSE LET front == RemoteOperators(SubSeq(rows, 1, Len(rows) - 1))
             id == rows[Len(rows)].operator
         IN IF id \in Range(front) THEN front ELSE Append(front, id)

\* The mutant of HistoryPage: the query asks for date_gte: $since.
HistoryPage_FromCursor(rows, ids, since) ==
    Take(SelectSeq(rows, LAMBDA b : b.operator \in Range(ids) /\ b.date >= since),
         PAGE_SIZE)

\* operatorDailyBuckets(where: {operator_in: $ids, date_gt: $since},
\*                      first: PAGE_SIZE, orderBy: date, orderDirection: asc)
HistoryPage(rows, ids, since) ==
    Take(SelectSeq(rows, LAMBDA b : b.operator \in Range(ids) /\ b.date > since),
         PAGE_SIZE)

\* A metadataJsonString: present says the string is there and non-empty,
\* parses that JSON.parse accepts it, object that it parses to an object
\* (and not to null), name is the value of its name (NoValue when none),
\* ownKeys are the own keys of the object beside name.
Metadata(present, parses, object, name) ==
    [present |-> present, parses |-> parses, object |-> object, name |-> name,
     ownKeys |-> {}]

\* The JSON object with the name and the own keys given
MetadataObject(name, keys) ==
    [Metadata(TRUE, TRUE, TRUE, name) EXCEPT !.ownKeys = keys]

\* The metadataJsonString the remote holds for each operator it knows:
\* OpC's names nobody and OpD has no row at all; OpE's name is a number,
\* OpF's string is not JSON, OpG has no string and OpH's is 'null'.
RemoteMetadata ==
    (OpA :> Metadata(TRUE, TRUE, TRUE, <<"A","c","e">>)) @@
    (OpB :> Metadata(TRUE, TRUE, TRUE, <<"B","O","L","D">>)) @@
    (OpC :> Metadata(TRUE, TRUE, TRUE, NoValue)) @@
    (OpE :> Metadata(TRUE, TRUE, TRUE, JsonNumber)) @@
    (OpF :> Metadata(TRUE, FALSE, FALSE, NoValue)) @@
    (OpG :> Metadata(FALSE, FALSE, FALSE, NoValue)) @@
    (OpH :> Metadata(TRUE, TRUE, FALSE, NoValue))

HexDigits == <<"0","1","2","3","4","5","6","7","8","9","a","b","c","d","e","f">>

\* `Operator ${id.slice(0, 6)}`
defaultName(id) ==
    <<"O","p","e","r","a","t","o","r"," ">>
        \o [i \in DOMAIN Take(id, 6) |-> HexDigits[id[i] + 1]]

\* parseMetadata(metadataStr, id).name
parseMetadata(metadataStr, id) ==
    IF ~ metadataStr.present THEN defaultName(id)
    ELSE IF ~ metadataStr.parses THEN defaultName(id)
    ELSE IF ~ metadataStr.object THEN defaultName(id)
    ELSE IF Truthy(metadataStr.name) THEN metadataStr.name
    ELSE defaultName(id)

\* What fetchData stores for an operator whose metadata names it `name`.
MetaEntry(id, name) == [name |-> name, color |-> BarColorIndex(id)]

\* The rows of one metadata chunk the remote answers with.
MetaRows(chunk) == SelectSeq(chunk, LAMBDA id : id \in DOMAIN RemoteMetadata)

\* metaJson.data.operators.forEach(op => operatorMetaMap[op.id] = {...})
StoreMeta(metaMap, ops) ==
    [id \in DOMAIN metaMap \cup Range(ops) |->
        IF id \in Range(ops)
        THEN MetaEntry(id, parseMetadata(RemoteMetadata[id], id))
        ELSE metaMap[id]]

\* The metadata cache once every discovered operator has been resolved;
\* OpD is discovered but the metadata query returns no row for it.
ReconMeta == StoreMeta(<<>>, MetaRows(ReconIds))

(***************************************************************************)
(* The DOM and the handlers of RaceLogic.                                  *)
(***************************************************************************)
\* The frame timelineData[index] (JavaScript indexes from 0).
HasFrame(timeline, index) == index >= 0 /\ index < Len(timeline)

\* renderFrame(index): the index drawn, -1 when there is no such frame
Drawn(timeline, index) == IF HasFrame(timeline, index) THEN index ELSE -1

\* renderFrame(index): the bar rows left visible, in rank order, for the
\* ranking drawn (the operator of each row and the amount its label shows)
Bars(currentRankings) ==
    [rank \in DOMAIN currentRankings |->
        [id |-> currentRankings[rank].id, valueWei |-> currentRankings[rank].valueWei]]

\* renderFrame(index) while state.activeMetric is metric: the slider follows
\* the frame drawn and the bars show the ranking of the metric
renderFrame(e, timeline, index, metric) ==
    IF HasFrame(timeline, index)
    THEN [e EXCEPT !.sliderValue = index, !.bars = Bars(timeline[index + 1][metric])]
    ELSE e

\* resetUI(): the writes to the DOM
resetUI(e) ==
    [e EXCEPT !.errorHidden = TRUE, !.chartHidden = TRUE, !.loadingHidden = FALSE,
              !.loadingBar = 0, !.bars = <<>>]

\* init(): the catch block
showError(e, msg) ==
    [e EXCEPT !.loadingHidden = TRUE, !.errorMsg = msg, !.errorHidden = FALSE]

\* The mutant of sliderAfterTimeline: slider.max is the number of frames.
sliderAfterTimeline_OffByOne(e, timeline) ==
    [e EXCEPT !.sliderMax = Len(timeline),
              !.sliderValue = IF e.sliderValue > Len(timeline) THEN Len(timeline)
                              ELSE e.sliderValue]

\* processTimeline(): slider.max; the browser keeps the slider's value
\* within its range.
sliderAfterTimeline(e, timeline) ==
    LET max == IF Len(timeline) - 1 > 0 THEN Len(timeline) - 1 ELSE 0
    IN [e EXCEPT !.sliderMax = max,
                 !.sliderValue = IF e.sliderValue > max THEN max ELSE e.sliderValue]

\* A fetchData() call suspended at the discovery request.
NewLoad == [pc |-> "discover", operatorIds |-> <<>>, i |-> 0,
            allBuckets |-> <<>>, lastDate |-> START_DATE, progress |-> 50,
            stale |-> FALSE]

MarkStale(ls) == [k \in DOMAIN ls |-> [ls[k] EXCEPT !.stale = TRUE]]

RemoveAt(s, k) == SubSeq(s, 1, k - 1) \o SubSeq(s, k + 1, Len(s))

\* The timeouts of `ticks` keep the delay they were scheduled with.
Restrict(d, ticks) == [t \in ticks |-> d[t]]

\* The mutant of Schedule: every timeout is scheduled with the slow delay.
Schedule_FixedDelay(d, ticks, id, delay) ==
    [t \in ticks \cup {id} |-> IF t = id THEN 100 ELSE d[t]]

\* setTimeout(() => this.loop(), delay): the timeout id joins those pending
Schedule(d, ticks, id, delay) ==
    [t \in ticks \cup {id} |-> IF t = id THEN delay ELSE d[t]]

\* init(): the listeners are attached once, resetUI() runs, and fetchData()
\* runs up to the discovery request; call is the suspended fetchData().
initCall(call) ==
    /\ Len(loads) < MaxLoads
    /\ hasInitialized' = TRUE
    /\ els' = [resetUI(els) EXCEPT !.loadingBar = 30]
    /\ currentIndex' = 0
    /\ isPlaying' = FALSE
    /\ timelineData' = <<>>
    /\ loads' = Append(MarkStale(loads), call)
    /\ UNCHANGED details
    /\ lastOp' = "init"
    /\ prevIndex' = currentIndex
    /\ gesture' = 0
    /\ rendered' = -1
    /\ lastStale' = FALSE
    /\ UNCHANGED <<operatorMetaMap, rawBuckets, allOperatorIds, filterDeprecated,
                   playbackSpeed, activeMetric, timer, pendingTicks, delays,
                   pendingRebuilds, remote, staleTicks>>

\* init() where the batch query of the discovery is not looked at
init == initCall(NewLoad)

\* handleShowRace(): the race button of the list view
handleShowRace ==
    /\ view = "list"
    /\ view' = "race"
    /\ init

\* The Try Again button of the error state.
TryAgain ==
    /\ view = "race"
    /\ hasInitialized
    /\ ~ els.errorHidden
    /\ view' = view
    /\ init

\* handleBackToFromRace(): stop(), then the list view
handleBackToFromRace ==
    /\ view = "race"
    /\ view' = "list"
    /\ isPlaying' = FALSE
    /\ pendingTicks' = IF timer # 0 THEN pendingTicks \ {timer} ELSE pendingTicks
    /\ delays' = Restrict(delays, pendingTicks')
    /\ staleTicks' = IF timer # 0 THEN staleTicks \ {timer} ELSE staleTicks
    /\ timer' = 0
    /\ loads' = MarkStale(loads)
    /\ UNCHANGED details
    /\ lastOp' = "stop"
    /\ prevIndex' = currentIndex
    /\ gesture' = 0
    /\ rendered' = -1
    /\ lastStale' = FALSE
    /\ UNCHANGED <<timelineData, operatorMetaMap, rawBuckets, allOperatorIds,
                   filterDeprecated, currentIndex, playbackSpeed, activeMetric,
                   hasInitialized, els, pendingRebuilds, remote>>

\* The controls of the race view answer once init() has attached them.
ControlsLive == view = "race" /\ hasInitialized

\* The mutant of loopBody: at the last frame the index wraps to 0 and
\* playback goes on.
loopBody_Wraps(index, ticks, stale) ==
    /\ rendered' = Drawn(timelineData, index)
    /\ els' = renderFrame(els, timelineData, index, activeMetric)
    /\ Cardinality(ticks) < MaxTicks
    /\ isPlaying' = TRUE
    /\ currentIndex' = IF index >= Len(timelineData) - 1 THEN 0 ELSE index + 1
    /\ LET id == Min((1..MaxTicks) \ ticks)
       IN /\ timer' = id
          /\ pendingTicks' = ticks \cup {id}
          /\ delays' = Schedule(delays, ticks, id, playbackSpeed)
          /\ staleTicks' = stale

\* loop() past its isPlaying guard, entered with currentIndex = index while
\* the timeouts `ticks` are pending.
loopBody(index, ticks, stale) ==
    /\ rendered' = Drawn(timelineData, index)
    /\ els' = renderFrame(els, timelineData, index, activeMetric)
    /\ IF index >= Len(timelineData) - 1
       THEN /\ isPlaying' = FALSE
            /\ currentIndex' = index
            /\ timer' = timer
            /\ pendingTicks' = ticks
            /\ delays' = Restrict(delays, ticks)
            /\ staleTicks' = stale
       ELSE /\ Cardinality(ticks) < MaxTicks
            /\ isPlaying' = TRUE
            /\ currentIndex' = index + 1
            /\ LET id == Min((1..MaxTicks) \ ticks)
               IN /\ timer' = id
                  /\ pendingTicks' = ticks \cup {id}
                  /\ delays' = Schedule(delays, ticks, id, playbackSpeed)
                  /\ staleTicks' = stale

\* The mutant of playStart: play() keeps the index it finds.
playStart_NoReset(index, len) == index

\* togglePlay(), play branch: the index loop() starts from
playStart(index, len) == IF index >= len - 1 THEN 0 ELSE index

\* togglePlay() while stopped: play
play ==
    /\ ControlsLive
    /\ ~ isPlaying
    /\ loopBody(playStart(currentIndex, Len(timelineData)), pendingTicks, staleTicks)
    /\ UNCHANGED details
    /\ lastOp' = "play"
    /\ prevIndex' = currentIndex
    /\ gesture' = 0
    /\ lastStale' = FALSE
    /\ UNCHANGED <<timelineData, operatorMetaMap, rawBuckets, allOperatorIds,
                   filterDeprecated, playbackSpeed, activeMetric, hasInitialized,
                   pendingRebuilds, loads, remote, view>>

\* togglePlay() while playing: pause
pause ==
    /\ ControlsLive
    /\ isPlaying
    /\ isPlaying' = FALSE
    /\ pendingTicks' = pendingTicks \ {timer}
    /\ delays' = Restrict(delays, pendingTicks')
    /\ staleTicks' = staleTicks \ {timer}
    /\ UNCHANGED details
    /\ lastOp' = "pause"
    /\ prevIndex' = currentIndex
    /\ gesture' = 0
    /\ rendered' = -1
    /\ lastStale' = FALSE
    /\ UNCHANGED <<timelineData, operatorMetaMap, rawBuckets, allOperatorIds,
                   filterDeprecated, currentIndex, playbackSpeed, activeMetric,
                   timer, hasInitialized, els, pendingRebuilds, loads, remote, view>>

\* The timeout t fires: loop()
tick(t) ==
    /\ t \in pendingTicks
    /\ IF isPlaying
       THEN loopBody(currentIndex, pendingTicks \ {t}, staleTicks \ {t})
       ELSE /\ pendingTicks' = pendingTicks \ {t}
            /\ delays' = Restrict(delays, pendingTicks')
            /\ staleTicks' = staleTicks \ {t}
            /\ rendered' = -1
            /\ UNCHANGED <<isPlaying, currentIndex, timer, els>>
    /\ UNCHANGED details
    /\ lastOp' = "tick"
    /\ prevIndex' = currentIndex
    /\ gesture' = 0
    /\ lastStale' = (t \in staleTicks)
    /\ UNCHANGED <<timelineData, operatorMetaMap, rawBuckets, allOperatorIds,
                   filterDeprecated, playbackSpeed, activeMetric, hasInitialized,
                   pendingRebuilds, loads, remote, view>>

\* <input type="range" id="timeline-slider">: the value the element reports
\* for a thumb dragged to position is kept within 0..max.
RangeValue(position, max) ==
    IF position < 0 THEN 0 ELSE IF position > max THEN max ELSE position

\* The slider's input listener: the user drags the thumb to position, the
\* element reports e.target.value, and the event fires when that differs
\* from the value the slider had.
seek(position) ==
    /\ ControlsLive
    /\ \E value \in {RangeValue(position, els.sliderMax)} :
          /\ value # els.sliderValue
          /\ currentIndex' = value
          /\ els' = renderFrame([els EXCEPT !.sliderValue = value], timelineData, value,
                                 activeMetric)
          /\ rendered' = Drawn(timelineData, value)
    /\ isPlaying' = FALSE
    /\ staleTicks' = pendingTicks
    /\ UNCHANGED details
    /\ lastOp' = "seek"
    /\ prevIndex' = currentIndex
    /\ gesture' = position
    /\ lastStale' = FALSE
    /\ UNCHANGED <<timelineData, operatorMetaMap, rawBuckets, allOperatorIds,
                   filterDeprecated, playbackSpeed, activeMetric, timer,
                   hasInitialized, pendingTicks, delays, pendingRebuilds, loads, remote, view>>

\* toggleSpeed()
toggleSpeed ==
    /\ ControlsLive
    /\ playbackSpeed' = IF playbackSpeed = 100 THEN 30 ELSE 100
    /\ UNCHANGED details
    /\ lastOp' = "toggleSpeed"
    /\ prevIndex' = currentIndex
    /\ gesture' = 0
    /\ rendered' = -1
    /\ lastStale' = FALSE
    /\ UNCHANGED <<timelineData, operatorMetaMap, rawBuckets, allOperatorIds,
                   filterDeprecated, currentIndex, isPlaying, activeMetric, timer,
                   hasInitialized, els, pendingTicks, delays, pendingRebuilds, loads,
                   remote, view, staleTicks>>

\* The mutant of metricDrawn: the frame is drawn before the assignment.
metricDrawn_Before(current, metric) == current

\* setMetric(): state.activeMetric is assigned before renderFrame() reads it
metricDrawn(current, metric) == metric

\* The mutant of setMetric: the timeline is emptied before the frame is
\* drawn.
setMetric_DropsTimeline(metric) ==
    /\ ControlsLive
    /\ activeMetric' = metric
    /\ timelineData' = <<>>
    /\ els' = renderFrame(els, <<>>, currentIndex, metric)
    /\ rendered' = -1
    /\ UNCHANGED details
    /\ lastOp' = "setMetric"
    /\ prevIndex' = currentIndex
    /\ gesture' = 0
    /\ lastStale' = FALSE
    /\ UNCHANGED <<operatorMetaMap, rawBuckets, allOperatorIds,
                   filterDeprecated, currentIndex, isPlaying, playbackSpeed, timer,
                   hasInitialized, pendingTicks, delays, pendingRebuilds, loads, remote,
                   view, staleTicks>>

\* setMetric(metric)
setMetric(metric) ==
    /\ ControlsLive
    /\ activeMetric' = metric
    /\ els' = renderFrame(els, timelineData, currentIndex,
                           metricDrawn(activeMetric, metric))
    /\ rendered' = Drawn(timelineData, currentIndex)
    /\ UNCHANGED details
    /\ lastOp' = "setMetric"
    /\ prevIndex' = currentIndex
    /\ gesture' = 0
    /\ lastStale' = FALSE
    /\ UNCHANGED <<timelineData, operatorMetaMap, rawBuckets, allOperatorIds,
                   filterDeprecated, currentIndex, isPlaying, playbackSpeed, timer,
                   hasInitialized, pendingTicks, delays, pendingRebuilds, loads, remote,
                   view, staleTicks>>

\* toggleFilter(): the flag flips and the rebuild is deferred by 50 ms
toggleFilter ==
    /\ ControlsLive
    /\ pendingRebuilds < MaxRebuilds
    /\ filterDeprecated' = ~ filterDeprecated
    /\ pendingRebuilds' = pendingRebuilds + 1
    /\ UNCHANGED details
    /\ lastOp' = "toggleFilter"
    /\ prevIndex' = currentIndex
    /\ gesture' = 0
    /\ rendered' = -1
    /\ lastStale' = FALSE
    /\ UNCHANGED <<timelineData, operatorMetaMap, rawBuckets, allOperatorIds,
                   currentIndex, isPlaying, playbackSpeed, activeMetric, timer,
                   hasInitialized, els, pendingTicks, delays, loads, remote, view,
                   staleTicks>>

\* The mutant of rederive: the frames already ranked are filtered in place.
rederive_FromFrames(buckets, operatorIds, metaMap, filter, frames) ==
    LET kept(entries) ==
            SelectSeq(entries, LAMBDA e :
                Len(validOperatorIds(<<e.id>>, metaMap, filter)) > 0)
    IN [result |-> "ok",
        timeline |-> [i \in DOMAIN frames |->
                        [frames[i] EXCEPT !.stake = kept(@), !.earnings = kept(@)]]]

\* The timeout callback of toggleFilter(): the timeline is rebuilt from
\* state.rawBuckets and state.allOperatorIds, not from state.timelineData.
rederive(buckets, operatorIds, metaMap, filter, frames) ==
    processTimeline(buckets, operatorIds, metaMap, filter)

\* The timeout of toggleFilter() fires.
rebuild ==
    /\ pendingRebuilds > 0
    /\ pendingRebuilds' = pendingRebuilds - 1
    /\ \E r \in {rederive(rawBuckets, allOperatorIds, operatorMetaMap,
                           filterDeprecated, timelineData)} :
          IF Len(rawBuckets) > 0 /\ r.result = "ok"
          THEN /\ timelineData' = r.timeline
               /\ els' = renderFrame(sliderAfterTimeline(els, r.timeline),
                                      r.timeline, currentIndex, activeMetric)
               /\ rendered' = Drawn(r.timeline, currentIndex)
          ELSE /\ rendered' = -1
               /\ UNCHANGED <<timelineData, els>>
    /\ UNCHANGED details
    /\ lastOp' = "rebuild"
    /\ prevIndex' = currentIndex
    /\ gesture' = 0
    /\ lastStale' = FALSE
    /\ UNCHANGED <<operatorMetaMap, rawBuckets, allOperatorIds, filterDeprecated,
                   currentIndex, isPlaying, playbackSpeed, activeMetric, timer,
                   hasInitialized, pendingTicks, delays, loads, remote, view, staleTicks>>

(***************************************************************************)
(* fetchData(): one action per continuation between two awaits.  k is the  *)
(* position of the suspended call in loads; `errors` says whether the      *)
(* response carries an error payload.                                      *)
(***************************************************************************)
\* Lines 260-261 and the first request that follows them.
afterDiscovery(l, ids) ==
    [l EXCEPT !.operatorIds = ids,
              !.pc = IF Len(ids) > 0 THEN "meta" ELSE "history"]

\* progress = Math.min(progress + 5, 95), at the head of the history loop
nextProgress(progress) == IF progress + 5 < 95 THEN progress + 5 ELSE 95

\* The call reaches its next request: a call that enters or re-enters the
\* history loop advances its progress and shows it on the loading bar.
atRequest(l) ==
    IF l.pc = "history" THEN [l EXCEPT !.progress = nextProgress(@)] ELSE l

\* loadingBar.style.width as the call l leaves it when it suspends
barAt(e, l) ==
    IF l.pc = "history" THEN [e EXCEPT !.loadingBar = l.progress] ELSE e

\* The mutant of discoveryOutcome: an error payload is not looked at.
discoveryOutcome_Ignored(errors) == "ids"

\* if (json.errors) throw new Error(json.errors[0].message)
discoveryOutcome(errors) == IF errors THEN "throw" ELSE "ids"

\* discoverTopOperators() resumes with the response of the batch query and
\* returns ids.
discoverDone(k, errors, ids) ==
    /\ k \in DOMAIN loads
    /\ loads[k].pc = "discover"
    /\ IF discoveryOutcome(errors) = "throw"
       THEN /\ loads' = RemoveAt(loads, k)
            /\ els' = showError(els, "discovery error")
            /\ UNCHANGED allOperatorIds
       ELSE /\ allOperatorIds' = ids
            /\ loads' = [loads EXCEPT ![k] = atRequest(afterDiscovery(@, ids))]
            /\ els' = barAt([els EXCEPT !.loadingBar = 50], loads'[k])
    /\ UNCHANGED details
    /\ lastOp' = IF errors THEN "discoverError" ELSE "discoverResp"
    /\ prevIndex' = currentIndex
    /\ gesture' = 0
    /\ lastStale' = loads[k].stale
    /\ rendered' = -1
    /\ UNCHANGED <<timelineData, operatorMetaMap, rawBuckets, filterDeprecated,
                   currentIndex, isPlaying, playbackSpeed, activeMetric, timer,
                   hasInitialized, pendingTicks, delays, pendingRebuilds, remote, view,
                   staleTicks>>

\* The discovery answers with the operators of the rows the remote holds.
discoverResp(k, errors) == discoverDone(k, errors, RemoteOperators(remote))

\* operatorIds.slice(i, i + chunkSize)
Chunk(ids, i) ==
    SubSeq(ids, i + 1, IF i + CHUNK_SIZE < Len(ids) THEN i + CHUNK_SIZE ELSE Len(ids))

\* The metadata loop resumes with the response for the chunk at offset i;
\* a response without data.operators is skipped.
metaResp(k, errors) ==
    /\ k \in DOMAIN loads
    /\ loads[k].pc = "meta"
    /\ LET l == loads[k]
           next == l.i + CHUNK_SIZE
       IN /\ operatorMetaMap' =
                 IF errors THEN operatorMetaMap
                 ELSE StoreMeta(operatorMetaMap, MetaRows(Chunk(l.operatorIds, l.i)))
          /\ loads' = [loads EXCEPT ![k] =
                 atRequest([l EXCEPT !.i = next,
                                     !.pc = IF next < Len(l.operatorIds) THEN "meta"
                                            ELSE "history"])]
          /\ els' = barAt(els, loads'[k])
    /\ UNCHANGED details
    /\ lastOp' = "metaResp"
    /\ prevIndex' = currentIndex
    /\ gesture' = 0
    /\ lastStale' = loads[k].stale
    /\ rendered' = -1
    /\ UNCHANGED <<timelineData, rawBuckets, allOperatorIds, filterDeprecated,
                   currentIndex, isPlaying, playbackSpeed, activeMetric, timer,
                   hasInitialized, pendingTicks, delays, pendingRebuilds, remote, view,
                   staleTicks>>

\* Lines 341-353: the aggregation has ended with allBuckets.
finishLoad(k, allBuckets) ==
    \E r \in {processTimeline(allBuckets, loads[k].operatorIds, operatorMetaMap,
                               filterDeprecated)} :
     LET last == Len(r.timeline) - 1
     IN
       /\ rawBuckets' = allBuckets
       /\ loads' = RemoveAt(loads, k)
       /\ IF r.result = "ok"
          THEN /\ timelineData' = r.timeline
               /\ currentIndex' = IF Len(r.timeline) > 0 THEN last ELSE currentIndex
               /\ els' = renderFrame(
                            [sliderAfterTimeline(els, r.timeline)
                                EXCEPT !.loadingBar = 100, !.loadingHidden = TRUE,
                                       !.chartHidden = FALSE],
                            r.timeline, last, activeMetric)
               /\ rendered' = Drawn(r.timeline, last)
          ELSE /\ els' = showError([els EXCEPT !.loadingBar = 100], r.result)
               /\ rendered' = -1
               /\ UNCHANGED <<timelineData, currentIndex>>

\* The mutant of nextCursor: the cursor is the date of the first row of the
\* page.
nextCursor_First(buckets) == buckets[1].date

\* lastDate = buckets[buckets.length - 1].date
nextCursor(buckets) == buckets[Len(buckets)].date

\* The mutant of pageOutcome: a page with an error payload ends the loop
\* as an empty page does.
pageOutcome_ErrorEnds(errors, buckets) ==
    IF errors \/ Len(buckets) = 0 \/ Len(buckets) < PAGE_SIZE THEN "end" ELSE "more"

\* What the history loop does with a response: throw on an error payload,
\* stop fetching on an empty or a short page, go on otherwise.
pageOutcome(errors, buckets) ==
    IF errors THEN "throw"
    ELSE IF Len(buckets) = 0 \/ Len(buckets) < PAGE_SIZE THEN "end"
    ELSE "more"

\* The history loop resumes with the response of one page.
historyResp(k, errors) ==
    /\ k \in DOMAIN loads
    /\ loads[k].pc = "history"
    /\ \E buckets \in {HistoryPage(remote, loads[k].operatorIds, loads[k].lastDate)} :
       LET l == loads[k]
           all == l.allBuckets \o buckets
           outcome == pageOutcome(errors, buckets)
       IN IF outcome = "throw"
          THEN /\ loads' = RemoveAt(loads, k)
               /\ els' = showError(els, "History error")
               /\ rendered' = -1
               /\ UNCHANGED <<timelineData, currentIndex, rawBuckets>>
          ELSE IF outcome = "end"
          THEN finishLoad(k, all)
          ELSE /\ Len(all) <= MaxObs + PAGE_SIZE
               /\ loads' = [loads EXCEPT ![k] =
                      atRequest([l EXCEPT !.allBuckets = all,
                                          !.lastDate = nextCursor(buckets)])]
               /\ els' = barAt(els, loads'[k])
               /\ rendered' = -1
               /\ UNCHANGED <<timelineData, currentIndex, rawBuckets>>
    /\ UNCHANGED details
    /\ lastOp' = IF errors THEN "historyError" ELSE "historyResp"
    /\ prevIndex' = currentIndex
    /\ gesture' = 0
    /\ lastStale' = loads[k].stale
    /\ UNCHANGED <<operatorMetaMap, allOperatorIds, filterDeprecated, isPlaying,
                   playbackSpeed, activeMetric, timer, hasInitialized, pendingTicks, delays,
                   pendingRebuilds, remote, view, staleTicks>>

(***************************************************************************)
(* The scale of renderFrame.  A number is a decimal [m, e], m * 10^e, and  *)
(* the arithmetic is exact.                                                *)
(***************************************************************************)
Dec(m, e) == [m |-> m, e |-> e]

RECURSIVE Pow10(_)
Pow10(n) == IF n <= 0 THEN 1 ELSE 10 * Pow10(n - 1)

\* x as a multiple of 10^lo, for lo at most x.e
Scaled(x, lo) == x.m * Pow10(x.e - lo)

\* Math.floor(Math.log10(m / d)) for positive m and d
RECURSIVE FloorLog10(_, _)
FloorLog10(m, d) ==
    IF m >= d THEN (IF m < 10 * d THEN 0 ELSE 1 + FloorLog10(m, 10 * d))
    ELSE FloorLog10(10 * m, d) - 1

\* The mutant of niceStep: the normalized step is rounded to the nearest
\* of 1, 2, 5 and 10.
niceStep_Nearest(num, den) ==
    IF 2 * num < 3 * den THEN 1
    ELSE IF 2 * num < 7 * den THEN 2
    ELSE IF 2 * num < 15 * den THEN 5
    ELSE 10

\* niceStep for the normalizedStep num / den
niceStep(num, den) ==
    IF 2 * num < 3 * den THEN 1
    ELSE IF num < 3 * den THEN 2
    ELSE IF num < 7 * den THEN 5
    ELSE 10

\* calculateNiceStep(maxValData)
calculateNiceStep(maxValData) ==
    IF maxValData.m = 0 THEN Dec(1000, 0)
    ELSE LET j == FloorLog10(maxValData.m, 16)
             num == maxValData.m * Pow10(0 - j)
             den == 16 * Pow10(j)
         IN Dec(niceStep(num, den), maxValData.e + j)

\* The mutant of markerDrawn: a marker is drawn wherever it falls.
markerDrawn_Always(num, den) == TRUE

\* if (posPercent < 99), for the posPercent num / den
markerDrawn(num, den) == num < 99 * den

\* The MARKERS block of renderFrame for one bar: the multiples i of the
\* step that get a line, and the left position num / den percent of each.
Markers(valData, scaleStepData) ==
    IF valData.m <= 0 THEN <<>>
    ELSE LET lo == IF valData.e < scaleStepData.e THEN valData.e ELSE scaleStepData.e
             val == Scaled(valData, lo)
             step == Scaled(scaleStepData, lo)
             numberOfMarkers == val \div step
             safeLimit == IF numberOfMarkers < 100 THEN numberOfMarkers ELSE 100
             all == [i \in 1..safeLimit |-> [i |-> i, num |-> 100 * i * step, den |-> val]]
         IN SelectSeq(all, LAMBDA line : markerDrawn(line.num, line.den))

\* No bar has been measured.
NoScale == [drawn |-> FALSE, max |-> Dec(0, 0), value |-> Dec(0, 0),
            step |-> Dec(0, 0), markers |-> <<>>]

\* The values a ranking can carry at its top and in one of its bars.
ScaleInputs ==
    {Dec(m, e) : m \in 1..MaxMantissa, e \in (0 - MaxExponent)..MaxExponent}

\* renderFrame() for one bar: the ranking's first entry is worth max (in
\* data units, floatValue / 1e18) and the bar itself is worth value.
drawBar(max, value) ==
    /\ ~ els.scale.drawn
    /\ max.e = value.e
    /\ value.m <= max.m
    /\ \E scaleStepData \in {calculateNiceStep(max)} :
          els' = [els EXCEPT !.scale =
                     [drawn |-> TRUE, max |-> max, value |-> value,
                      step |-> scaleStepData,
                      markers |-> Markers(value, scaleStepData)]]
    /\ UNCHANGED details
    /\ lastOp' = "drawBar"
    /\ UNCHANGED <<timelineData, operatorMetaMap, rawBuckets, allOperatorIds,
                   filterDeprecated, currentIndex, isPlaying, playbackSpeed,
                   activeMetric, timer, hasInitialized, pendingTicks, delays,
                   pendingRebuilds, loads, remote, view, rendered, staleTicks,
                   lastStale, prevIndex, gesture>>

(***************************************************************************)
(* The machine: the race view driven by the playback controls, the timers  *)
(* and the responses of the remote.                                        *)
(***************************************************************************)
InitialEls == [loadingHidden |-> FALSE, errorHidden |-> TRUE, chartHidden |-> TRUE,
               errorMsg |-> "", sliderMax |-> SliderHtmlMax, sliderValue |-> 0,
               loadingBar |-> 0, bars |-> <<>>, scale |-> NoScale]

\* The state of RaceLogic when the module is loaded, before any init().
InitialData ==
    /\ operatorMetaMap = <<>>
    /\ rawBuckets = <<>>
    /\ allOperatorIds = <<>>
    /\ filterDeprecated = FALSE

\* state.currentOperatorId and state.detailsRefreshInterval are null, no
\* interval runs and no call is suspended.
InitialDetails ==
    [currentOperatorId |-> <<>>, detailsRefreshInterval |-> 0,
     intervals |-> {}, handles |-> 0, calls |-> <<>>]

InitialState ==
    /\ timelineData = <<>>
    /\ currentIndex = 0
    /\ isPlaying = FALSE
    /\ playbackSpeed = 100
    /\ activeMetric = "stake"
    /\ timer = 0
    /\ hasInitialized = FALSE
    /\ els = InitialEls
    /\ pendingTicks = {}
    /\ delays = <<>>
    /\ pendingRebuilds = 0
    /\ loads = <<>>
    /\ view = "list"
    /\ lastOp = "none"
    /\ rendered = -1
    /\ staleTicks = {}
    /\ lastStale = FALSE
    /\ prevIndex = 0
    /\ gesture = 0
    /\ details = InitialDetails

\* Three days in a full page and a short one, and a history of a single day.
ThreeDays == << Bucket(1, OpA, << <<1,0,0>>, <<5>> >>),
                Bucket(2, OpB, << <<5,0>>, <<2,0>> >>),
                Bucket(3, OpA, << <<1,0>>, NoValue >>) >>

OneDay == << Bucket(1, OpA, << <<1,0,0>>, <<5>> >>) >>

Init ==
    /\ InitialState
    /\ InitialData
    /\ remote \in {ThreeDays, OneDay}

Next ==
    \/ handleShowRace
    \/ TryAgain
    \/ handleBackToFromRace
    \/ play
    \/ pause
    \/ \E t \in 1..MaxTicks : tick(t)
    \/ \E position \in 0..els.sliderMax : seek(position)
    \/ \E k \in 1..MaxLoads, errors \in BOOLEAN : discoverResp(k, errors)
    \/ \E k \in 1..MaxLoads : metaResp(k, FALSE)
    \/ \E k \in 1..MaxLoads : historyResp(k, FALSE)

Spec == Init /\ [][Next]_vars

(***************************************************************************)
(* Reconstruction alone: processTimeline applied to any sequence of        *)
(* buckets, in any order.                                                  *)
(***************************************************************************)
InitRecon ==
    /\ InitialState
    /\ remote = <<>>
    /\ \E buckets \in RawInputs, filter \in BOOLEAN :
          /\ rawBuckets = buckets
          /\ filterDeprecated = filter
    /\ allOperatorIds = ReconIds
    /\ operatorMetaMap = ReconMeta

\* processTimeline(state.rawBuckets, state.allOperatorIds)
reconstruct ==
    /\ lastOp = "none"
    /\ \E r \in {processTimeline(rawBuckets, allOperatorIds, operatorMetaMap,
                                   filterDeprecated)} :
          /\ timelineData' = IF r.result = "ok" THEN r.timeline ELSE timelineData
          /\ els' = IF r.result = "ok" THEN sliderAfterTimeline(els, r.timeline)
                    ELSE showError(els, r.result)
    /\ UNCHANGED details
    /\ lastOp' = "processTimeline"
    /\ prevIndex' = currentIndex
    /\ gesture' = 0
    /\ UNCHANGED <<operatorMetaMap, rawBuckets, allOperatorIds, filterDeprecated,
                   currentIndex, isPlaying, playbackSpeed, activeMetric, timer,
                   hasInitialized, pendingTicks, delays, pendingRebuilds, loads, remote,
                   view, rendered, staleTicks, lastStale>>

NextRecon == reconstruct

SpecRecon == InitRecon /\ [][NextRecon]_vars

(***************************************************************************)
(* Loading alone: one init() against any remote dataset, every response    *)
(* either carrying data or an error payload.                               *)
(***************************************************************************)
\* The remote answers orderBy: date, orderDirection: asc.
AscendingDates(rows) ==
    \A i, j \in DOMAIN rows : i < j => rows[i].date <= rows[j].date

RemoteInputs == {rows \in RawInputs : AscendingDates(rows)}

InitFetch ==
    /\ InitialState
    /\ InitialData
    /\ remote \in RemoteInputs

NextFetch ==
    \/ handleShowRace
    \/ \E k \in 1..MaxLoads, errors \in BOOLEAN : discoverResp(k, errors)
    \/ \E k \in 1..MaxLoads, errors \in BOOLEAN : metaResp(k, errors)
    \/ \E k \in 1..MaxLoads, errors \in BOOLEAN : historyResp(k, errors)

SpecFetch == InitFetch /\ [][NextFetch]_vars

(***************************************************************************)
(* History aggregation.                                                    *)
(***************************************************************************)
\* The aggregation of the one load has ended and handed its buckets on.
AggregationEnded ==
    /\ lastOp = "historyResp"
    /\ Len(loads) = 0
    /\ els.errorMsg # "History error"

\* C1: when the aggregation ends, the buckets handed to the reconstruction
\* hold every row of the remote that belongs to a discovered operator and is
\* dated after the start date.
C1_AggregationComplete ==
    AggregationEnded =>
        \A i \in DOMAIN remote :
            (remote[i].operator \in Range(allOperatorIds) /\ remote[i].date > START_DATE)
                => \E j \in DOMAIN rawBuckets : rawBuckets[j] = remote[i]

(***************************************************************************)
(* Playback and stale callbacks.                                           *)
(***************************************************************************)
FetchCallbacks == {"discoverResp", "discoverError", "metaResp", "historyResp",
                   "historyError"}

\* C2: a tick scheduled before a seek neither draws a frame nor moves
\* currentIndex when it fires after that seek.
C2_SeekCancelsPendingTick ==
    [][(lastOp' = "tick" /\ lastStale')
          => (rendered' = -1 /\ currentIndex' = currentIndex)]_vars

\* C3: at most one playback tick is pending in every reachable state.
C3_AtMostOnePendingTick == Cardinality(pendingTicks) <= 1

\* C4: a continuation of a fetchData() call started by an init() that a
\* stop() or another init() has followed writes nothing and draws nothing.
C4_StaleFetchIsNoOp ==
    [][(lastOp' \in FetchCallbacks /\ lastStale')
          => (/\ UNCHANGED <<allOperatorIds, operatorMetaMap, rawBuckets,
                             timelineData, currentIndex>>
              /\ rendered' = -1)]_vars

\* play() finds currentIndex at or past the last frame of a non-empty timeline.
PlayAtEnd ==
    /\ UNCHANGED details
    /\ lastOp' = "play"
    /\ Len(timelineData) > 0
    /\ currentIndex >= Len(timelineData) - 1

\* C9 as stated: play() at or past the last frame draws frame 0 first and
\* leaves the state Playing.
C9_PlayAtEndRestartsPlaying ==
    [][PlayAtEnd => (rendered' = 0 /\ isPlaying')]_vars

\* C9 amended: play() at or past the last frame draws frame 0 first; the
\* state is Playing, with the index on frame 1 and a tick pending, exactly
\* when the timeline has more than one frame, and with a single frame
\* play() draws frame 0 and stops at once.
C9_PlayAtEndRestarts ==
    [][PlayAtEnd =>
          /\ rendered' = 0
          /\ isPlaying' = (Len(timelineData) > 1)
          /\ currentIndex' = (IF Len(timelineData) > 1 THEN 1 ELSE 0)
          /\ (Len(timelineData) > 1 => timer' \in pendingTicks')
          /\ (Len(timelineData) = 1 => pendingTicks' = pendingTicks)]_vars

\* play() has run from the last frame of a timeline of several frames.
C9_Witness ==
    /\ lastOp = "play"
    /\ Len(timelineData) > 1
    /\ prevIndex = Len(timelineData) - 1
    /\ rendered = 0
    /\ isPlaying
    /\ currentIndex = 1

\* C10: a tick that runs while playing with currentIndex on the last frame
\* draws that frame, stops, schedules nothing and leaves currentIndex; and no
\* tick ever moves currentIndex backwards.
C10_TickAtEndStops ==
    [][lastOp' = "tick" =>
          /\ currentIndex' >= currentIndex
          /\ (isPlaying /\ Len(timelineData) > 0
                        /\ currentIndex = Len(timelineData) - 1)
                => /\ rendered' = currentIndex
                   /\ ~ isPlaying'
                   /\ currentIndex' = currentIndex
                   /\ pendingTicks' \subseteq pendingTicks]_vars

\* A tick has drawn the last frame of a timeline of several frames and
\* stopped the playback.
C10_Witness ==
    /\ lastOp = "tick"
    /\ Len(timelineData) > 1
    /\ prevIndex = Len(timelineData) - 1
    /\ rendered = Len(timelineData) - 1
    /\ currentIndex = Len(timelineData) - 1
    /\ ~ isPlaying
    /\ pendingTicks = {}

(***************************************************************************)
(* Reconstruction.                                                         *)
(***************************************************************************)
Metrics == {"stake", "earnings"}

\* The value a bucket reports for a metric.
Reported(b, metric) ==
    IF metric = "stake" THEN b.valueWithoutEarnings ELSE b.cumulativeEarningsWei

\* The buckets of operator id dated at or before date that report metric.
ReportsUpTo(buckets, id, metric, date) ==
    {i \in DOMAIN buckets : /\ buckets[i].operator = id
                            /\ buckets[i].date <= date
                            /\ Truthy(Reported(buckets[i], metric))}

\* The value of the latest of them.
LastReport(buckets, id, metric, date) ==
    LET obs == ReportsUpTo(buckets, id, metric, date)
        latest == CHOOSE i \in obs : \A j \in obs : buckets[j].date <= buckets[i].date
    IN Reported(buckets[latest], metric)

\* processTimeline has run on rawBuckets and published a timeline.
Reconstructed == lastOp = "processTimeline" /\ Len(rawBuckets) > 0

\* The position of operator id in a ranking, 0 when it is not ranked.
RankOf(ranking, id) ==
    IF \E k \in DOMAIN ranking : ranking[k].id = id
    THEN CHOOSE k \in DOMAIN ranking : ranking[k].id = id
    ELSE 0

\* C5: every ranked entry of an operator carries, for its metric, the value
\* of the operator's latest bucket dated at or before the frame that reports
\* the metric; for the example, the day-3 stake ranking has B (50) above A (10).
C5_ForwardFill ==
    Reconstructed =>
        /\ \A f \in DOMAIN timelineData : \A m \in Metrics :
              \A k \in DOMAIN timelineData[f][m] :
                 LET e == timelineData[f][m][k]
                 IN ReportsUpTo(rawBuckets, e.id, m, timelineData[f].date) # {}
                      => /\ e.valueWei = LastReport(rawBuckets, e.id, m,
                                                    timelineData[f].date)
                         /\ e.floatValue = parseFloat(e.valueWei)
        /\ (rawBuckets = ExampleBuckets /\ ~ filterDeprecated)
              => LET day3 == timelineData[Len(timelineData)]
                 IN /\ day3.date = 3
                    /\ RankOf(day3.stake, OpB) > 0
                    /\ RankOf(day3.stake, OpB) < RankOf(day3.stake, OpA)
                    /\ day3.stake[RankOf(day3.stake, OpB)].floatValue = 50
                    /\ day3.stake[RankOf(day3.stake, OpA)].floatValue = 10

\* The example has been reconstructed: B keeps its day-1 value on day 3.
C5_Witness ==
    /\ Reconstructed
    /\ rawBuckets = ExampleBuckets
    /\ ~ filterDeprecated
    /\ Len(timelineData) = 2
    /\ timelineData[2].stake[1].id = OpB

\* C6: an operator without any bucket dated at or before a frame has the
\* numeric value 0 in every ranking of that frame.
C6_ZeroBeforeFirstObservation ==
    Reconstructed =>
        \A f \in DOMAIN timelineData : \A m \in Metrics :
            \A k \in DOMAIN timelineData[f][m] :
               LET e == timelineData[f][m][k]
               IN (~ \E i \in DOMAIN rawBuckets :
                        /\ rawBuckets[i].operator = e.id
                        /\ rawBuckets[i].date <= timelineData[f].date)
                    => e.floatValue = 0

\* A frame ranks an operator whose first bucket is dated after the frame.
C6_Witness ==
    /\ Reconstructed
    /\ \E f \in DOMAIN timelineData : \E k \in DOMAIN timelineData[f].stake :
          LET e == timelineData[f].stake[k]
          IN /\ e.floatValue = 0
             /\ \E i \in DOMAIN rawBuckets : rawBuckets[i].operator = e.id
             /\ \A i \in DOMAIN rawBuckets :
                   rawBuckets[i].operator = e.id
                     => rawBuckets[i].date > timelineData[f].date

\* C7: the frames have strictly increasing dates, and there is exactly one
\* frame for each distinct date of the buckets.
C7_StrictlyIncreasingDates ==
    Reconstructed =>
        /\ \A i, j \in DOMAIN timelineData :
              i < j => timelineData[i].date < timelineData[j].date
        /\ {timelineData[i].date : i \in DOMAIN timelineData}
              = {rawBuckets[i].date : i \in DOMAIN rawBuckets}
        /\ Len(timelineData)
              = Cardinality({rawBuckets[i].date : i \in DOMAIN rawBuckets})

\* The buckets came out of order and with a date repeated.
C7_Witness ==
    /\ Reconstructed
    /\ \E i, j \in DOMAIN rawBuckets : i < j /\ rawBuckets[i].date > rawBuckets[j].date
    /\ \E i, j \in DOMAIN rawBuckets : i # j /\ rawBuckets[i].date = rawBuckets[j].date
    /\ Len(timelineData) = 2

\* The candidates of a frame: the discovered operators the filter lets through.
Candidates == Range(validOperatorIds(allOperatorIds, operatorMetaMap, filterDeprecated))

\* The numeric value of a candidate at a date.
ValueAt(id, metric, date) ==
    IF ReportsUpTo(rawBuckets, id, metric, date) = {} THEN 0
    ELSE parseFloat(LastReport(rawBuckets, id, metric, date))

\* C8: every ranking has at most DISPLAY_COUNT entries, is sorted in
\* non-increasing order of the numeric value, names no operator twice and
\* holds the DISPLAY_COUNT largest-valued candidates of its frame.
C8_TopKSortedDescending ==
    Reconstructed =>
        LET candidates == Candidates
        IN \A f \in DOMAIN timelineData : \A m \in Metrics :
            LET ranking == timelineData[f][m]
                ranked == {ranking[k].id : k \in DOMAIN ranking}
                value == [c \in candidates |-> ValueAt(c, m, timelineData[f].date)]
            IN /\ Len(ranking) <= DISPLAY_COUNT
               /\ Len(ranking) = IF Cardinality(candidates) < DISPLAY_COUNT
                                 THEN Cardinality(candidates) ELSE DISPLAY_COUNT
               /\ \A i, j \in DOMAIN ranking :
                     i < j => ranking[i].floatValue >= ranking[j].floatValue
               /\ \A i, j \in DOMAIN ranking :
                     ranking[i].id = ranking[j].id => i = j
               /\ ranked \subseteq candidates
               /\ \A k \in DOMAIN ranking :
                     ranking[k].floatValue = value[ranking[k].id]
               /\ \A c \in candidates \ ranked : \A k \in DOMAIN ranking :
                     ranking[k].floatValue >= value[c]

\* A ranking was cut: a candidate with a positive value is left out of a
\* ranking whose entries are in strictly decreasing order.
C8_Witness ==
    /\ Reconstructed
    /\ \E f \in DOMAIN timelineData :
          LET ranking == timelineData[f].stake
          IN /\ Len(ranking) = DISPLAY_COUNT
             /\ Cardinality(Candidates) > DISPLAY_COUNT
             /\ ranking[1].floatValue > ranking[Len(ranking)].floatValue
             /\ \E c \in Candidates :
                   /\ \A k \in DOMAIN ranking : ranking[k].id # c
                   /\ ValueAt(c, "stake", timelineData[f].date) > 0

(***************************************************************************)
(* Pause.                                                                  *)
(***************************************************************************)
\* C11: a pause leaves no tick pending, stops playback, keeps currentIndex
\* and renders nothing; a tick that fires while playback is stopped renders
\* nothing and keeps currentIndex.
C11_PauseCancelsPendingTick ==
    [][/\ lastOp' = "pause" =>
             /\ pendingTicks' = {}
             /\ ~ isPlaying'
             /\ currentIndex' = currentIndex
             /\ rendered' = -1
       /\ (lastOp' = "tick" /\ ~ isPlaying) =>
             /\ rendered' = -1
             /\ currentIndex' = currentIndex
             /\ ~ isPlaying']_vars

(***************************************************************************)
(* The controls: one init() whose requests all succeed, and every control  *)
(* of the race view, the slider's thumb dragged to any position on or      *)
(* beyond its track.                                                       *)
(***************************************************************************)
Positions == -1..(MaxObs + SliderHtmlMax)

NextControls ==
    \/ handleShowRace
    \/ \E k \in 1..MaxLoads : discoverResp(k, FALSE)
    \/ \E k \in 1..MaxLoads : metaResp(k, FALSE)
    \/ \E k \in 1..MaxLoads : historyResp(k, FALSE)
    \/ play
    \/ pause
    \/ \E t \in 1..MaxTicks : tick(t)
    \/ \E position \in Positions : seek(position)
    \/ toggleSpeed
    \/ \E metric \in {"stake", "earnings"} : setMetric(metric)
    \/ toggleFilter
    \/ rebuild

SpecControls == Init /\ [][NextControls]_vars

\* C12: whenever the timeline is not empty after a handler, currentIndex is
\* the index of one of its frames; and a slider gesture on a non-empty
\* timeline, also one beyond either end of the track, leaves currentIndex at
\* the frame nearest to the position and renders that frame.
C12_IndexWithinTimeline ==
    [][/\ Len(timelineData') > 0 =>
             (0 <= currentIndex' /\ currentIndex' <= Len(timelineData') - 1)
       /\ (lastOp' = "seek" /\ Len(timelineData) > 0) =>
             /\ currentIndex' = IF gesture' < 0 THEN 0
                                ELSE IF gesture' > Len(timelineData) - 1
                                     THEN Len(timelineData) - 1
                                     ELSE gesture'
             /\ rendered' = currentIndex'
             /\ els'.sliderValue = currentIndex']_vars

\* The thumb was dragged beyond the end of the track of a timeline of
\* several frames: the last frame is the current one and was drawn.
C12_Witness ==
    /\ lastOp = "seek"
    /\ Len(timelineData) > 1
    /\ gesture > Len(timelineData) - 1
    /\ currentIndex = Len(timelineData) - 1
    /\ rendered = Len(timelineData) - 1

(***************************************************************************)
(* Metric and speed.                                                       *)
(***************************************************************************)
\* C13: setMetric changes activeMetric and the drawing alone: it draws the
\* frame at currentIndex with the ranking of the metric now active, and
\* keeps currentIndex, the play state, the pending ticks, the speed, the
\* filter flag and the timeline.
C13_SetMetricRedrawsOnly ==
    [][lastOp' = "setMetric" =>
         /\ activeMetric' \in {"stake", "earnings"}
         /\ UNCHANGED <<currentIndex, isPlaying, timer, pendingTicks, delays,
                        playbackSpeed, filterDeprecated, timelineData,
                        rawBuckets, allOperatorIds, operatorMetaMap>>
         /\ IF currentIndex >= 0 /\ currentIndex < Len(timelineData)
            THEN /\ rendered' = currentIndex
                 /\ els'.bars =
                      [k \in DOMAIN timelineData[currentIndex + 1][activeMetric'] |->
                         [id |-> timelineData[currentIndex + 1][activeMetric'][k].id,
                          valueWei |->
                             timelineData[currentIndex + 1][activeMetric'][k].valueWei]]
            ELSE rendered' = -1 /\ els' = els]_vars

\* The metric was switched to earnings during playback on a frame whose two
\* rankings differ: the earnings ranking is drawn and the tick still pends.
C13_Witness ==
    /\ lastOp = "setMetric"
    /\ activeMetric = "earnings"
    /\ isPlaying
    /\ pendingTicks # {}
    /\ rendered = currentIndex
    /\ timelineData[currentIndex + 1].earnings[1].id
          # timelineData[currentIndex + 1].stake[1].id
    /\ els.bars[1].id = timelineData[currentIndex + 1].earnings[1].id

\* C14: the speed is 100 or 30 and a toggle switches it to the other one;
\* the toggle leaves the pending ticks and their delays as they are, and a
\* tick scheduled by a later play or tick has the speed of that moment as
\* its delay.
C14_SpeedToggleNotRetroactive ==
    [][/\ playbackSpeed' \in {100, 30}
       /\ UNCHANGED details
       /\ lastOp' = "toggleSpeed" =>
             /\ playbackSpeed' = (IF playbackSpeed = 100 THEN 30 ELSE 100)
             /\ UNCHANGED <<pendingTicks, delays, timer, isPlaying, currentIndex>>
             /\ rendered' = -1
       /\ (lastOp' \in {"play", "tick"} /\ isPlaying') =>
             /\ timer' \in pendingTicks'
             /\ delays'[timer'] = playbackSpeed
             /\ \A t \in pendingTicks' \ {timer'} :
                   t \in pendingTicks /\ delays'[t] = delays[t]]_vars

\* The speed was toggled to 30 while a tick scheduled with 100 is pending.
C14_Witness ==
    /\ lastOp = "toggleSpeed"
    /\ playbackSpeed = 30
    /\ isPlaying
    /\ timer \in pendingTicks
    /\ delays[timer] = 100

(***************************************************************************)
(* Completion of a load.                                                   *)
(***************************************************************************)
\* C15: when the load of the latest init() completes with a timeline, the
\* playback is stopped, no tick is pending, and the current index is the
\* last frame, which is the frame drawn.
C15_LoadCompletesStoppedAtLastFrame ==
    [][(lastOp' = "historyResp" /\ ~ lastStale' /\ rendered' >= 0) =>
          /\ ~ isPlaying'
          /\ pendingTicks' = {}
          /\ currentIndex' = Len(timelineData') - 1
          /\ rendered' = Len(timelineData') - 1]_vars

(***************************************************************************)
(* The deprecation filter: one load against any remote dataset, and the    *)
(* filter toggled at any moment during and after it.                       *)
(***************************************************************************)
NextRefilter ==
    \/ handleShowRace
    \/ \E k \in 1..MaxLoads : discoverResp(k, FALSE)
    \/ \E k \in 1..MaxLoads : metaResp(k, FALSE)
    \/ \E k \in 1..MaxLoads : historyResp(k, FALSE)
    \/ toggleFilter
    \/ rebuild

SpecRefilter == InitFetch /\ [][NextRefilter]_vars

\* C16: once the rebuild of a toggle has run, the timeline is, frame by
\* frame and rank by rank, the one a reconstruction from scratch gives from
\* the raw buckets, the discovered operators and the metadata with the
\* filter as it now stands; a toggle and its rebuild leave those three as
\* they were and a toggle only flips the filter, so a second toggle brings
\* the original timeline back.
C16_RederivationFromScratch ==
    [][/\ (pendingRebuilds' = 0 /\ Len(rawBuckets') > 0) =>
             LET scratch == processTimeline(rawBuckets', allOperatorIds',
                                            operatorMetaMap', filterDeprecated')
             IN scratch.result = "ok" /\ timelineData' = scratch.timeline
       /\ lastOp' \in {"toggleFilter", "rebuild"} =>
             UNCHANGED <<rawBuckets, allOperatorIds, operatorMetaMap>>
       /\ UNCHANGED details
       /\ lastOp' = "toggleFilter" => filterDeprecated' = ~ filterDeprecated
       /\ UNCHANGED details
       /\ lastOp' = "rebuild" => filterDeprecated' = filterDeprecated]_vars

\* The filter was toggled back off and the rebuild brought back an
\* operator whose name is blacklisted; three operators compete for the
\* ranks, so that the filter moves the cut.
C16_Witness ==
    /\ lastOp = "rebuild"
    /\ ~ filterDeprecated
    /\ Len(timelineData) > 0
    /\ Len(validOperatorIds(allOperatorIds, operatorMetaMap, FALSE)) > DISPLAY_COUNT
    /\ \E i \in DOMAIN timelineData : \E k \in DOMAIN timelineData[i].stake :
          /\ timelineData[i].stake[k].id = OpB
          /\ Len(validOperatorIds(<<OpB>>, operatorMetaMap, TRUE)) = 0

(***************************************************************************)
(* Errors while loading.                                                   *)
(***************************************************************************)
\* C17: a history page that carries an error payload ends the load: the
\* call is gone (it requests no further page), the pages it had fetched
\* are not stored as raw buckets and no timeline is built from them, the
\* timeline is empty, the chart is hidden, nothing is drawn, and the error
\* state shows the history error.
C17_HistoryErrorAborts ==
    [][lastOp' = "historyError" =>
          /\ loads' = <<>>
          /\ rawBuckets' = <<>>
          /\ timelineData' = <<>>
          /\ els'.chartHidden
          /\ els'.bars = <<>>
          /\ rendered' = -1
          /\ ~ els'.errorHidden
          /\ els'.loadingHidden
          /\ els'.errorMsg = "History error"]_vars

\* The error came on a later page: the loading bar had moved past the
\* first page request, so a full page had been fetched before.
C17_Witness ==
    /\ lastOp = "historyError"
    /\ els.loadingBar > nextProgress(50)
    /\ Len(remote) >= PAGE_SIZE
    /\ rawBuckets = <<>>
    /\ ~ els.errorHidden

\* C18: a discovery response that carries an error payload ends the load
\* at once: the call is gone (it issues neither a metadata nor a history
\* request, and the loading bar stays where the discovery request left
\* it), the discovered list, the metadata and the raw buckets are as they
\* were, no timeline is built, and the error state shows the error.
C18_DiscoveryErrorAborts ==
    [][lastOp' = "discoverError" =>
          /\ loads' = <<>>
          /\ els'.loadingBar = 30
          /\ allOperatorIds' = <<>>
          /\ operatorMetaMap' = <<>>
          /\ rawBuckets' = <<>>
          /\ timelineData' = <<>>
          /\ els'.chartHidden
          /\ rendered' = -1
          /\ ~ els'.errorHidden
          /\ els'.loadingHidden
          /\ els'.errorMsg = "discovery error"]_vars

\* The discovery failed against a remote that holds operators and history.
C18_Witness ==
    /\ lastOp = "discoverError"
    /\ Len(RemoteOperators(remote)) > 0
    /\ allOperatorIds = <<>>
    /\ ~ els.errorHidden

\* C19: when the aggregation ends with buckets that hold no date, the
\* load fails with 'No data found', and with that message in no other
\* case: the timeline is empty, nothing is drawn, the chart stays hidden
\* and the error state is shown.
C19_NoDataFound ==
    [][/\ (lastOp' = "historyResp" /\ Len(loads') < Len(loads)
            /\ Len(sortedDates(rawBuckets')) = 0) =>
             /\ els'.errorMsg = "No data found"
             /\ ~ els'.errorHidden
             /\ els'.loadingHidden
             /\ els'.chartHidden
             /\ els'.bars = <<>>
             /\ timelineData' = <<>>
             /\ rendered' = -1
       /\ els'.errorMsg = "No data found" =>
             (loads' = <<>> /\ Len(sortedDates(rawBuckets')) = 0)]_vars

\* Discovery and aggregation went through against a remote without rows
\* and the load ended with the error.
C19_Witness ==
    /\ lastOp = "historyResp"
    /\ loads = <<>>
    /\ remote = <<>>
    /\ els.loadingBar = 100
    /\ els.errorMsg = "No data found"
    /\ timelineData = <<>>

(***************************************************************************)
(* Metadata payloads: one load against a remote whose operators carry      *)
(* every kind of metadataJsonString, and the filter toggled at any moment. *)
(***************************************************************************)
MetaOps == {OpB, OpC, OpD, OpE, OpF, OpG, OpH}

\* One bucket per operator, all of the same day.
MetaBuckets == {Bucket(1, id, << <<5,0>>, <<2,0>> >>) : id \in MetaOps}

MetaInputs ==
    UNION {{s \in [1..n -> MetaBuckets] : DistinctKeys(s)} : n \in 1..MaxObs}

InitMeta ==
    /\ InitialState
    /\ InitialData
    /\ remote \in MetaInputs

SpecMeta == InitMeta /\ [][NextRefilter]_vars

\* C20: whatever the metadata payload of an operator, the name stored for
\* it is a non-empty string; once the load has ended every discovered
\* operator the remote has a row for is resolved; and no reconstruction,
\* with the filter on or off, ends in a TypeError.
C20_MetadataRecoversLocally ==
    /\ \A id \in DOMAIN operatorMetaMap :
          Truthy(operatorMetaMap[id].name) /\ IsString(operatorMetaMap[id].name)
    /\ (hasInitialized /\ loads = <<>>) =>
          \A id \in Range(allOperatorIds) \cap DOMAIN RemoteMetadata :
              id \in DOMAIN operatorMetaMap
    /\ els.errorMsg # "TypeError"
    /\ (pendingRebuilds = 0 /\ Len(rawBuckets) > 0 /\ els.errorHidden) =>
          LET scratch == processTimeline(rawBuckets, allOperatorIds,
                                         operatorMetaMap, filterDeprecated)
          IN scratch.result = "ok" /\ timelineData = scratch.timeline

(***************************************************************************)
(* The candidates of a ranking.                                            *)
(***************************************************************************)
\* The entries of both rankings of every frame of the timeline.
RankedEntries ==
    UNION {Range(timelineData[i].stake) \cup Range(timelineData[i].earnings) :
             i \in DOMAIN timelineData}

\* C21: every entry of every ranking of every frame names an operator that
\* is in the discovered list and has an entry in the metadata cache; a
\* discovered operator without one is in no ranking, for either metric and
\* with the filter on or off.
C21_NoMetadataNoRank ==
    \A e \in RankedEntries :
        e.id \in Range(allOperatorIds) /\ e.id \in DOMAIN operatorMetaMap

\* A rebuild with the filter on left a rank free while the discovered
\* OpD, which has buckets but no metadata row, is in no ranking.
C21_Witness ==
    /\ lastOp = "rebuild"
    /\ filterDeprecated
    /\ Len(timelineData) > 0
    /\ OpD \in Range(allOperatorIds)
    /\ OpD \notin DOMAIN operatorMetaMap
    /\ \E i \in DOMAIN rawBuckets : rawBuckets[i].operator = OpD
    /\ Len(timelineData[1].stake) > 0
    /\ Len(timelineData[1].stake) < DISPLAY_COUNT
    /\ \A e \in RankedEntries : e.id # OpD

(***************************************************************************)
(* Re-entry: the race view left and entered again, Try Again after a       *)
(* failed discovery, and the settings changed in between.                  *)
(***************************************************************************)
InitReentry ==
    /\ InitialState
    /\ InitialData
    /\ remote = OneDay

NextReentry ==
    \/ handleShowRace
    \/ handleBackToFromRace
    \/ TryAgain
    \/ \E k \in 1..MaxLoads, errors \in BOOLEAN : discoverResp(k, errors)
    \/ \E k \in 1..MaxLoads : metaResp(k, FALSE)
    \/ \E k \in 1..MaxLoads : historyResp(k, FALSE)
    \/ toggleSpeed
    \/ \E metric \in {"stake", "earnings"} : setMetric(metric)
    \/ toggleFilter
    \/ rebuild

SpecReentry == InitReentry /\ [][NextReentry]_vars

\* C22: every init() leaves the playback state at its initial values
\* before the load starts: index 0, not playing, speed 100, metric stake,
\* filter off.
C22_InitResetsPlaybackState ==
    [][lastOp' = "init" =>
          /\ currentIndex' = 0
          /\ ~ isPlaying'
          /\ playbackSpeed' = 100
          /\ activeMetric' = "stake"
          /\ ~ filterDeprecated']_vars

(***************************************************************************)
(* The scale alone: calculateNiceStep and the markers of one bar, for any  *)
(* top value and any bar value below it.                                   *)
(***************************************************************************)
InitScale ==
    /\ InitialState
    /\ InitialData
    /\ remote = <<>>

NextScale ==
    \E max \in ScaleInputs : \E m \in 0..max.m : drawBar(max, Dec(m, max.e))

SpecScale == InitScale /\ [][NextScale]_vars

\* a < b, a <= b for decimals
DecLess(a, b) ==
    LET lo == IF a.e < b.e THEN a.e ELSE b.e IN Scaled(a, lo) < Scaled(b, lo)

DecTimes(n, a) == Dec(n * a.m, a.e)

\* C23: for a positive maximum the step is n * 10^k, where 10^k is the
\* power of ten with 10^k <= max/16 < 10^(k+1) and n is 1 when
\* max/16 < 1.5 * 10^k, 2 when it is below 3 * 10^k, 5 when it is below
\* 7 * 10^k and 10 otherwise; the step for 37 is 2.
C23_NiceStep ==
    els.scale.drawn =>
        LET max == els.scale.max
            step == els.scale.step
            magnitude == Dec(1, step.e)
        IN /\ step.m \in {1, 2, 5, 10}
           /\ ~ DecLess(max, DecTimes(16, magnitude))
           /\ DecLess(max, DecTimes(160, magnitude))
           /\ step.m = (IF DecLess(DecTimes(2, max), DecTimes(48, magnitude)) THEN 1
                         ELSE IF DecLess(max, DecTimes(48, magnitude)) THEN 2
                         ELSE IF DecLess(max, DecTimes(112, magnitude)) THEN 5
                         ELSE 10)
           /\ max = Dec(37, 0) => step = Dec(2, 0)

\* The step of a ranking whose first entry is worth 37.
C23_Witness ==
    /\ els.scale.drawn
    /\ els.scale.max = Dec(37, 0)
    /\ els.scale.step = Dec(2, 0)

\* The multiples i >= 1 of the step that do not exceed the bar's value,
\* among the first hundred.
MultiplesWithin(value, step) ==
    {i \in 1..100 : ~ DecLess(value, DecTimes(i, step))}

\* The hundredth multiple of the step is beyond the bar's value, so that
\* the multiples within the value are among the first hundred.
FewMultiples == DecLess(els.scale.value, DecTimes(100, els.scale.step))

\* The multiples that get a marker line.
MarkedMultiples == {els.scale.markers[k].i : k \in DOMAIN els.scale.markers}

\* Each line is at i * step / value * 100 percent, and below 99 percent.
MarkersPlaced ==
    \A k \in DOMAIN els.scale.markers :
        LET line == els.scale.markers[k]
            lo == IF els.scale.value.e < els.scale.step.e THEN els.scale.value.e
                  ELSE els.scale.step.e
        IN /\ line.num * Scaled(els.scale.value, lo)
                  = 100 * line.i * Scaled(els.scale.step, lo) * line.den
           /\ line.num < 99 * line.den

\* C24 as stated: a bar with a positive value has a marker at every
\* multiple of the step that does not exceed its value, and at no other.
C24_MarkersAtEveryMultiple ==
    (els.scale.drawn /\ els.scale.value.m > 0) =>
        /\ FewMultiples
        /\ MarkedMultiples = MultiplesWithin(els.scale.value, els.scale.step)
        /\ MarkersPlaced

\* C24, amended: a bar with a positive value has a marker exactly at the
\* multiples i * step, i >= 1, that lie below 99 percent of its value,
\* each at i * step / value * 100 percent; a bar worth nothing has none.
C24_MarkersBelow99 ==
    els.scale.drawn =>
        /\ FewMultiples
        /\ MarkedMultiples =
              {i \in MultiplesWithin(els.scale.value, els.scale.step) :
                 DecLess(DecTimes(100 * i, els.scale.step),
                         DecTimes(99, els.scale.value))}
        /\ MarkersPlaced
        /\ els.scale.value.m = 0 => els.scale.markers = <<>>

\* A bar worth 20 under a top value of 37: the step is 2, the lines are at
\* the multiples 1 to 9, and the tenth, at 100 percent, is left out.
C24_Witness ==
    /\ els.scale.drawn
    /\ els.scale.max = Dec(37, 0)
    /\ els.scale.value = Dec(20, 0)
    /\ MarkedMultiples = 1..9
    /\ 10 \in MultiplesWithin(els.scale.value, els.scale.step)

(***************************************************************************)
(* The deprecation blacklist.                                              *)
(***************************************************************************)
\* The name, in lower case, contains 'old', 'testnet' or 'deprecated'.
Blacklisted(name) ==
    \E w \in DOMAIN blacklist : includes(toLowerCase(name), blacklist[w])

\* The discovered operators with metadata, less the blacklisted ones when
\* the filter is on.
Eligible ==
    {id \in Range(allOperatorIds) \cap DOMAIN operatorMetaMap :
        filterDeprecated => ~ Blacklisted(operatorMetaMap[id].name)}

\* C25: with the filter on no ranked entry has a blacklisted name,
\* whatever the case it is written in; with the filter on or off every
\* eligible operator (with the filter off: every discovered operator with
\* metadata) is a candidate of every ranking, that is, it is ranked unless
\* DISPLAY_COUNT entries with values at least as large are.
C25_BlacklistFilter ==
    Reconstructed =>
        LET eligible == Eligible
        IN /\ filterDeprecated => \A e \in RankedEntries : ~ Blacklisted(e.name)
           /\ \A f \in DOMAIN timelineData : \A m \in Metrics :
                 LET ranking == timelineData[f][m]
                     ranked == {ranking[k].id : k \in DOMAIN ranking}
                 IN /\ ranked \subseteq eligible
                    /\ \A c \in eligible \ ranked :
                          /\ Len(ranking) = DISPLAY_COUNT
                          /\ \A k \in DOMAIN ranking :
                                ranking[k].floatValue
                                    >= ValueAt(c, m, timelineData[f].date)

\* With the filter on, OpB, whose name 'BOLD' holds 'old' in capitals, is
\* worth more than every ranked entry of a frame and is not ranked.
C25_Witness ==
    /\ Reconstructed
    /\ filterDeprecated
    /\ OpB \in DOMAIN operatorMetaMap
    /\ \E f \in DOMAIN timelineData :
          LET ranking == timelineData[f].stake
          IN /\ Len(ranking) > 0
             /\ \A k \in DOMAIN ranking :
                   /\ ranking[k].id # OpB
                   /\ ranking[k].floatValue < ValueAt(OpB, "stake", timelineData[f].date)

(***************************************************************************)
(* Playback left alone: one load of the history of a single operator, the  *)
(* slider moved only while stopped, play pressed only while stopped and no *)
(* other control touched, so that nothing comes between a play() and the   *)
(* end of its run.  Every pending timeout fires in the end.                *)
(***************************************************************************)
PlaybackInputs ==
    {rows \in RemoteInputs :
        \A i \in DOMAIN rows : rows[i] = Bucket(rows[i].date, OpA, << <<5,0>>, <<2,0>> >>)}

InitPlayback ==
    /\ InitialState
    /\ InitialData
    /\ remote \in PlaybackInputs

NextPlayback ==
    \/ handleShowRace
    \/ \E k \in 1..MaxLoads : discoverResp(k, FALSE)
    \/ \E k \in 1..MaxLoads : metaResp(k, FALSE)
    \/ \E k \in 1..MaxLoads : historyResp(k, FALSE)
    \/ (~ isPlaying /\ \E position \in 0..els.sliderMax : seek(position))
    \/ play
    \/ \E t \in 1..MaxTicks : tick(t)

SpecPlayback ==
    /\ InitPlayback
    /\ [][NextPlayback]_vars
    /\ WF_vars(\E t \in 1..MaxTicks : tick(t))

\* C26: play() draws the frame it starts from (the current one, or frame 0
\* from the last frame); every tick of the run draws the frame that
\* follows the one drawn before it, so the frames come in increasing
\* order, each once; the run stops only on drawing the last frame; and a
\* run that has started does stop, on the last frame.
C26_PlaybackRunsToLastFrame ==
    /\ [][/\ (lastOp' = "play" /\ Len(timelineData) > 0) =>
               rendered' = playStart(currentIndex, Len(timelineData))
          /\ (lastOp' = "tick" /\ isPlaying) =>
               /\ rendered' = rendered + 1
               /\ rendered' = currentIndex
               /\ isPlaying' = (rendered' < Len(timelineData) - 1)
          /\ (lastOp' = "play" /\ Len(timelineData) > 0) =>
               isPlaying' = (rendered' < Len(timelineData) - 1)]_vars
    /\ (isPlaying ~> (/\ ~ isPlaying
                      /\ pendingTicks = {}
                      /\ rendered = Len(timelineData) - 1
                      /\ currentIndex = Len(timelineData) - 1))

\* A run over a timeline of three frames has ended on its last frame.
C26_Witness ==
    /\ lastOp = "tick"
    /\ Len(timelineData) > 2
    /\ ~ isPlaying
    /\ pendingTicks = {}
    /\ rendered = Len(timelineData) - 1
    /\ currentIndex = rendered

(***************************************************************************)
(* Pagination: one load against any remote dataset; every request is       *)
(* answered in the end, with data or with an error payload.                *)
(***************************************************************************)
Responses ==
    \E k \in 1..MaxLoads, errors \in BOOLEAN :
        discoverResp(k, errors) \/ metaResp(k, errors) \/ historyResp(k, errors)

\* The datasets whose buckets all carry the same two values.
PagingInputs ==
    {rows \in RemoteInputs :
        \A i \in DOMAIN rows :
            rows[i] = Bucket(rows[i].date, rows[i].operator, << <<5,0>>, <<2,0>> >>)}

InitPaging ==
    /\ InitialState
    /\ InitialData
    /\ remote \in PagingInputs

\* A call of init() is waiting for the response to a request: every call in
\* loads is suspended at an await of fetch, and its response is enabled.
ResponsePending == loads # <<>>

\* Every request is answered: weak fairness of Responses, written out with
\* ResponsePending for ENABLED <<Responses>>_vars.
SpecPaging ==
    /\ InitPaging
    /\ [][NextFetch]_vars
    /\ ([]<>(~ ResponsePending) \/ []<><<Responses>>_vars)

\* The rows of the remote the page request in flight asks for, beyond the
\* page size.
RowsAsked ==
    SelectSeq(remote, LAMBDA b : /\ b.operator \in Range(loads[1].operatorIds)
                                 /\ b.date > loads[1].lastDate)

\* C27: a page of PAGE_SIZE rows is followed by one more request, whose
\* cursor is greater than the cursor of the request before; a page of
\* fewer rows, or of none, ends the loop and the call, with no request
\* after it; and every load ends.
C27_PaginationTerminates ==
    /\ [][lastOp' = "historyResp" =>
            IF Len(RowsAsked) >= PAGE_SIZE
            THEN /\ Len(loads') = 1
                 /\ loads'[1].pc = "history"
                 /\ loads'[1].lastDate > loads[1].lastDate
                 /\ rawBuckets' = rawBuckets
            ELSE /\ loads' = <<>>
                 /\ Len(rawBuckets') = Len(loads[1].allBuckets) + Len(RowsAsked)]_vars
    /\ (Len(loads) > 0 ~> loads = <<>>)

\* The loop ended on the page after a full one.
C27_Witness ==
    /\ lastOp = "historyResp"
    /\ loads = <<>>
    /\ els.loadingBar = 100
    /\ Len(rawBuckets) >= PAGE_SIZE
    /\ Len(remote) > PAGE_SIZE

(***************************************************************************)
(* The concatenated observation sequence.                                  *)
(***************************************************************************)
\* The rows of a sequence one aggregation has received, page after page.
NoRowTwice(buckets) ==
    \A i, j \in DOMAIN buckets : buckets[i] = buckets[j] => i = j

OrderedByDate(buckets) ==
    \A i, j \in DOMAIN buckets : i < j => buckets[i].date <= buckets[j].date

\* C28: the concatenated observation sequence, while the aggregation runs
\* and when it is handed on, is ordered by non-decreasing date and holds no
\* row of the remote more than once, however many pages it took.
C28_ConcatenationOrderedNoDuplicates ==
    /\ \A k \in DOMAIN loads :
          /\ OrderedByDate(loads[k].allBuckets)
          /\ NoRowTwice(loads[k].allBuckets)
          /\ \A i \in DOMAIN loads[k].allBuckets :
                \E j \in DOMAIN remote : remote[j] = loads[k].allBuckets[i]
    /\ OrderedByDate(rawBuckets)
    /\ NoRowTwice(rawBuckets)
    /\ \A i \in DOMAIN rawBuckets : \E j \in DOMAIN remote : remote[j] = rawBuckets[i]

\* A sequence of more rows than one page holds has been handed on.
C28_Witness ==
    /\ loads = <<>>
    /\ Len(rawBuckets) > PAGE_SIZE
    /\ rawBuckets[Len(rawBuckets)].date > rawBuckets[1].date

(***************************************************************************)
(* Page requests in flight.                                                *)
(***************************************************************************)
\* The calls of fetchData() suspended at the await of a history page.
PageRequests == {k \in DOMAIN loads : loads[k].pc = "history"}

RECURSIVE MaxDate(_)
\* The largest date among the rows, START_DATE when there is none.
MaxDate(buckets) ==
    IF Len(buckets) = 0 THEN START_DATE
    ELSE LET front == MaxDate(SubSeq(buckets, 1, Len(buckets) - 1))
             d == buckets[Len(buckets)].date
         IN IF d > front THEN d ELSE front

\* The cursor of every page request in flight is the largest date its
\* aggregation has received, the start date before the first page.
CursorFollowsRows ==
    \A k \in PageRequests : loads[k].lastDate = MaxDate(loads[k].allBuckets)

\* C29: in every reachable state, a second init() during a load included,
\* at most one history-page request is in flight, and the cursor of each
\* is the largest date among the rows its aggregation has received.
C29_OnePageRequestInFlight ==
    /\ Cardinality(PageRequests) <= 1
    /\ CursorFollowsRows

(***************************************************************************)
(* Discovery: the checkpoints, the batch query and the union of the ids.   *)
(* Dates are seconds counted from the start date.                          *)
(***************************************************************************)
\* const interval = SNAPSHOT_INTERVAL_DAYS * 24 * 60 * 60
interval == SNAPSHOT_INTERVAL_DAYS * 24 * 60 * 60

\* for (let t = START_DATE; t <= now; t += interval) checkpoints.push(t)
RECURSIVE CheckpointsFrom(_, _)
CheckpointsFrom(t, now) ==
    IF t <= now THEN <<t>> \o CheckpointsFrom(t + interval, now) ELSE <<>>

\* The mutant of checkpoints: no checkpoint is pushed after the loop.
checkpoints_NoTrailing(now) == CheckpointsFrom(START_DATE, now)

\* The checkpoints of lines 203-208: the loop, then checkpoints.push(now)
checkpoints(now) == Append(CheckpointsFrom(START_DATE, now), now)

\* The sub-query t${idx} of the checkpoint ts
BucketsQuery(idx, ts) ==
    [entity |-> "operatorDailyBuckets", t |-> idx, first |-> TOP_FIRST,
     date_gte |-> ts, date_lt |-> ts + DayWindow]

\* The sub-query currentTop
CurrentTopQuery == [entity |-> "operators", first |-> TOP_FIRST]

\* queryBody: one sub-query per checkpoint, then currentTop
batchQuery(cps) ==
    [i \in DOMAIN cps |-> BucketsQuery(i - 1, cps[i])] \o <<CurrentTopQuery>>

\* A fetchData() call suspended at the discovery request it built when the
\* clock read now.
DiscoveryCall(now) ==
    [now |-> now, checkpoints |-> checkpoints(now),
     batchQuery |-> batchQuery(checkpoints(now))] @@ NewLoad

\* orderBy: valueWithoutEarnings, orderDirection: desc, ties in the order
\* of the rows
RECURSIVE ByValueDescending(_)
ByValueDescending(rows) ==
    IF Len(rows) = 0 THEN <<>>
    ELSE LET front == ByValueDescending(SubSeq(rows, 1, Len(rows) - 1))
             x == rows[Len(rows)]
             v(b) == parseFloat(b.valueWithoutEarnings)
         IN SelectSeq(front, LAMBDA b : v(b) >= v(x)) \o <<x>>
                \o SelectSeq(front, LAMBDA b : v(b) < v(x))

\* The operators entity of the remote: every operator with its current
\* value, which is the value of its latest bucket.
CurrentOperators(rows) ==
    LET ids == RemoteOperators(rows)
        latest(id) == Max({i \in DOMAIN rows : rows[i].operator = id})
    IN [k \in DOMAIN ids |-> rows[latest(ids[k])]]

\* The group the remote returns for one sub-query: buckets carry
\* operator { id }, operators carry id.
Group(rows, q) ==
    IF q.entity = "operatorDailyBuckets"
    THEN LET inWindow == SelectSeq(rows, LAMBDA b : /\ b.date >= q.date_gte
                                                    /\ b.date < q.date_lt)
             top == Take(ByValueDescending(inWindow), q.first)
         IN [i \in DOMAIN top |-> [operator |-> [id |-> top[i].operator]]]
    ELSE LET top == Take(ByValueDescending(CurrentOperators(rows)), q.first)
         IN [i \in DOMAIN top |-> [id |-> top[i].operator]]

\* json.data: the groups in the order of the sub-queries
Answer(rows, query) == [i \in DOMAIN query |-> Group(rows, query[i])]

\* item.operator ? item.operator.id : item.id
itemId(item) == IF "operator" \in DOMAIN item THEN item.operator.id ELSE item.id

\* The items of every group, one group after the other
RECURSIVE Items(_)
Items(groups) ==
    IF Len(groups) = 0 THEN <<>>
    ELSE groups[1] \o Items(SubSeq(groups, 2, Len(groups)))

\* Array.from(uniqueOperatorIds) after every item was added: the distinct
\* ids in the order of their first occurrence
RECURSIVE uniqueOperatorIds(_)
uniqueOperatorIds(items) ==
    IF Len(items) = 0 THEN <<>>
    ELSE LET front == uniqueOperatorIds(SubSeq(items, 1, Len(items) - 1))
             id == itemId(items[Len(items)])
         IN IF id \in Range(front) THEN front ELSE Append(front, id)

\* handleShowRace() when the clock reads now
handleShowRaceAt(now) ==
    /\ view = "list"
    /\ view' = "race"
    /\ initCall(DiscoveryCall(now))

\* discoverTopOperators() resumes with json.data of its batch query.
discoverBatchResp(k) ==
    /\ k \in DOMAIN loads
    /\ "batchQuery" \in DOMAIN loads[k]
    /\ discoverDone(k, FALSE,
                    uniqueOperatorIds(Items(Answer(remote, loads[k].batchQuery))))

\* Math.floor(Date.now() / 1000): on a checkpoint, a second after it and a
\* day after it
Nows ==
    {START_DATE + n * interval + o : n \in 0..MaxIntervals, o \in {0, 1, DayWindow}}

\* The dates of the daily buckets: the days the loop's checkpoints fall on
\* and the day after the start date.
DiscoveryDates ==
    {START_DATE + n * interval : n \in 0..MaxIntervals} \cup {START_DATE + DayWindow}

DiscoveryBuckets ==
    {Bucket(d, id, v) : d \in DiscoveryDates, id \in {OpA, OpB, OpC}, v \in BucketValues}

DiscoveryInputs ==
    UNION {{s \in [1..n -> DiscoveryBuckets] : DistinctKeys(s) /\ AscendingDates(s)}
              : n \in 0..MaxRows}

InitDiscover ==
    /\ InitialState
    /\ InitialData
    /\ remote \in DiscoveryInputs

NextDiscover ==
    \/ \E now \in Nows : handleShowRaceAt(now)
    \/ discoverBatchResp(1)

SpecDiscover == InitDiscover /\ [][NextDiscover]_vars

\* The identifiers the sub-queries of the call returned
Returned(l) == {itemId(x) : x \in Range(Items(Answer(remote, l.batchQuery)))}

\* C30: the checkpoints of a discovery are start, start + interval, ... up
\* to the largest not after now, and one more at now; its one request
\* holds a sub-query per checkpoint for the day window from the checkpoint
\* and one current-top sub-query; the candidate list it returns has no
\* duplicate and holds exactly the identifiers the sub-queries returned.
C30_DiscoveryCheckpointsAndUnion ==
    \A k \in DOMAIN loads :
        LET l == loads[k]
            cps == l.checkpoints
            n == Len(cps)
        IN /\ n >= 1
           /\ cps[n] = l.now
           /\ \A i \in 1..(n - 1) :
                 cps[i] = START_DATE + (i - 1) * interval /\ cps[i] <= l.now
           /\ START_DATE + (n - 1) * interval > l.now
           /\ Len(l.batchQuery) = n + 1
           /\ \A i \in 1..n :
                 /\ l.batchQuery[i].entity = "operatorDailyBuckets"
                 /\ l.batchQuery[i].date_gte = cps[i]
                 /\ l.batchQuery[i].date_lt = cps[i] + 86400
           /\ l.batchQuery[n + 1].entity = "operators"
           /\ l.pc # "discover" =>
                 /\ Range(allOperatorIds) = Returned(l)
                 /\ NoRowTwice(allOperatorIds)
                 /\ l.operatorIds = allOperatorIds

\* A discovery two intervals after the start date has returned two
\* operators, one of them found by more than one sub-query.
C30_Witness ==
    /\ lastOp = "discoverResp"
    /\ Len(loads) = 1
    /\ Len(loads[1].checkpoints) >= 4
    /\ Len(allOperatorIds) >= 2
    /\ Len(Items(Answer(remote, loads[1].batchQuery))) > Len(allOperatorIds)

(***************************************************************************)
(* The color of an operator: one operator of any identifier, resolved      *)
(* again and again with either kind of metadata.                           *)
(***************************************************************************)
\* The identifiers of two and of three hexadecimal digits.
ColorIds ==
    [1..2 -> 0..15] \cup {<<h>> \o id : h \in {0, 15}, id \in [1..2 -> 0..15]}

\* A metadataJsonString with a name, and a missing one.
ColorMetadata == {Metadata(TRUE, TRUE, TRUE, <<"A","c","e">>),
                  Metadata(FALSE, FALSE, FALSE, NoValue)}

\* The callback of metaJson.data.operators.forEach for the row (id,
\* metadataStr) of an operator the cache holds no other operator beside.
resolveOperator(id, metadataStr) ==
    /\ DOMAIN operatorMetaMap \subseteq {id}
    /\ operatorMetaMap' = (id :> MetaEntry(id, parseMetadata(metadataStr, id)))
    /\ UNCHANGED details
    /\ lastOp' = "resolveOperator"
    /\ UNCHANGED <<timelineData, rawBuckets, allOperatorIds, filterDeprecated,
                   currentIndex, isPlaying, playbackSpeed, activeMetric, timer,
                   hasInitialized, els, pendingTicks, delays, pendingRebuilds, loads,
                   remote, view, rendered, staleTicks, lastStale, prevIndex, gesture>>

InitColor ==
    /\ InitialState
    /\ InitialData
    /\ remote = <<>>

NextColor == \E id \in ColorIds, metadataStr \in ColorMetadata : resolveOperator(id, metadataStr)

SpecColor == InitColor /\ [][NextColor]_vars

\* The value of the last two hexadecimal characters of an identifier
LastTwoHex(id) ==
    LET chars == [i \in DOMAIN id |-> HexDigits[id[i] + 1]]
        value(c) == CHOOSE v \in 0..15 : HexDigits[v + 1] = c
    IN 16 * value(chars[Len(chars) - 1]) + value(chars[Len(chars)])

\* C31: the color stored for an operator is the palette entry at the value
\* of the last two hexadecimal characters of its identifier modulo the size
\* of the palette, an index of the palette; resolving the operator again,
\* whatever its metadata, stores the same color.
C31_ColorFromIdentifier ==
    /\ [](\A id \in DOMAIN operatorMetaMap :
            /\ operatorMetaMap[id].color \in 0..(BarColorsLength - 1)
            /\ operatorMetaMap[id].color = LastTwoHex(id) % BarColorsLength)
    /\ [][\A id \in DOMAIN operatorMetaMap \cap DOMAIN operatorMetaMap' :
            operatorMetaMap'[id].color = operatorMetaMap[id].color]_vars

\* An operator of three characters, the last two worth more than the
\* palette is long, has been resolved with a name.
C31_Witness ==
    /\ lastOp = "resolveOperator"
    /\ \E id \in DOMAIN operatorMetaMap :
          /\ LastTwoHex(id) >= BarColorsLength
          /\ Len(id) = 3
          /\ operatorMetaMap[id].name = <<"A","c","e">>

(***************************************************************************)
(* The merge of one date into the running table.                           *)
(***************************************************************************)
\* The buckets of date that report metric for operator id.
ReportsOn(id, metric, date) ==
    {i \in DOMAIN rawBuckets : /\ rawBuckets[i].operator = id
                               /\ rawBuckets[i].date = date
                               /\ Truthy(Reported(rawBuckets[i], metric))}

\* The last-known value of a ranked operator before frame f: the value in
\* the frame before, '0' before the first frame; NoValue when the frame
\* before does not rank the operator.
ValueBefore(f, metric, id) ==
    IF f = 1 THEN <<0>>
    ELSE LET ranking == timelineData[f - 1][metric]
         IN IF RankOf(ranking, id) = 0 THEN NoValue
            ELSE ranking[RankOf(ranking, id)].valueWei

\* C32: in every frame, a ranked operator carries for a metric the value
\* its bucket of that date reports; where the date has no bucket of the
\* operator, or a bucket that does not report the metric, it carries the
\* value it had before that date.
C32_MergeOverwritesReportedMetricsOnly ==
    Reconstructed =>
        \A f \in DOMAIN timelineData : \A m \in Metrics :
            \A k \in DOMAIN timelineData[f][m] :
               LET e == timelineData[f][m][k]
                   on == ReportsOn(e.id, m, timelineData[f].date)
               IN IF on # {}
                  THEN \E i \in on : e.valueWei = Reported(rawBuckets[i], m)
                  ELSE Truthy(ValueBefore(f, m, e.id))
                          => e.valueWei = ValueBefore(f, m, e.id)

\* An operator's bucket of the second date reports the stake and not the
\* earnings: the stake has changed and the earnings are those of the first
\* date; another operator, without a bucket of that date, keeps both.
C32_Witness ==
    /\ Reconstructed
    /\ Len(timelineData) >= 2
    /\ \E k \in DOMAIN timelineData[2].earnings :
          LET e == timelineData[2].earnings[k]
          IN /\ ReportsOn(e.id, "earnings", timelineData[2].date) = {}
             /\ ReportsOn(e.id, "stake", timelineData[2].date) # {}
             /\ e.valueWei = <<2, 0>>
             /\ ValueBefore(2, "earnings", e.id) = <<2, 0>>
             /\ ValueBefore(2, "stake", e.id) = <<5, 0>>
    /\ \E k \in DOMAIN timelineData[2].stake :
          LET e == timelineData[2].stake[k]
          IN /\ \A i \in DOMAIN rawBuckets :
                   rawBuckets[i].operator = e.id => rawBuckets[i].date # timelineData[2].date
             /\ e.valueWei = ValueBefore(2, "stake", e.id)
             /\ e.valueWei # <<0>>

(***************************************************************************)
(* The frames, the raw buckets and the metadata under the controls.        *)
(***************************************************************************)
PlaybackControls == {"play", "pause", "tick", "seek", "toggleSpeed", "setMetric"}

\* C33: play, pause, a tick, a seek, the speed toggle and setMetric leave
\* the timeline, the raw buckets and the metadata cache as they were; the
\* timeline changes only in init(), at the end of a load and in the rebuild
\* of a filter toggle.
C33_ControlsLeaveFramesAlone ==
    [][/\ lastOp' \in PlaybackControls =>
             /\ timelineData' = timelineData
             /\ rawBuckets' = rawBuckets
             /\ operatorMetaMap' = operatorMetaMap
       /\ timelineData' # timelineData =>
             lastOp' \in {"init", "historyResp", "rebuild"}]_vars

\* The metric was changed during playback at the fast speed, between two
\* frames of a timeline of several.
C33_Witness ==
    /\ lastOp = "setMetric"
    /\ Len(timelineData) > 1
    /\ activeMetric = "earnings"
    /\ playbackSpeed = 30
    /\ isPlaying
    /\ currentIndex > 0
    /\ rendered = currentIndex

(***************************************************************************)
(* Metadata payloads with own keys: the rows of one metadata response,     *)
(* resolved by the race and parsed by the operator details.                *)
(***************************************************************************)
DangerousKeys == {"__proto__", "constructor", "prototype"}

\* parseOperatorMetadata(metadataJsonString).name of utils.ts, NoValue for
\* null: a payload that owns a dangerous key is turned down.
parseOperatorMetadata(metadataJsonString) ==
    IF ~ metadataJsonString.present THEN NoValue
    ELSE IF ~ metadataJsonString.parses THEN NoValue
    ELSE IF ~ metadataJsonString.object THEN NoValue
    ELSE IF metadataJsonString.ownKeys \cap DangerousKeys # {} THEN NoValue
    ELSE metadataJsonString.name

\* The payloads: an object with a name or without one, owning one of the
\* dangerous keys, a harmless key or none, and a missing string.
Payloads ==
    {MetadataObject(name, keys) :
        name \in {<<"A","c","e">>, NoValue},
        keys \in {{}, {"description"}} \cup {{k} : k \in DangerousKeys}}
      \cup {Metadata(FALSE, FALSE, FALSE, NoValue)}

\* metaJson.data.operators: rows of distinct operators
PayloadRows ==
    UNION {{rows \in [1..n -> [id : {OpA, OpB, OpC}, metadataJsonString : Payloads]] :
               \A i, j \in 1..n : rows[i].id = rows[j].id => i = j}
              : n \in 1..MaxRows}

\* forEach(op => operatorMetaMap[op.id] = {...}) over the rows
RECURSIVE StoreRows(_, _)
StoreRows(metaMap, rows) ==
    IF Len(rows) = 0 THEN metaMap
    ELSE LET op == rows[1]
             entry == MetaEntry(op.id, parseMetadata(op.metadataJsonString, op.id))
             stored == [id \in DOMAIN metaMap \cup {op.id} |->
                           IF id = op.id THEN entry ELSE metaMap[id]]
         IN StoreRows(stored, SubSeq(rows, 2, Len(rows)))

\* The metadata response with the rows the remote holds is resolved.
resolveRows ==
    /\ operatorMetaMap = <<>>
    /\ operatorMetaMap' = StoreRows(operatorMetaMap, remote)
    /\ UNCHANGED details
    /\ lastOp' = "resolveRows"
    /\ UNCHANGED <<timelineData, rawBuckets, allOperatorIds, filterDeprecated,
                   currentIndex, isPlaying, playbackSpeed, activeMetric, timer,
                   hasInitialized, els, pendingTicks, delays, pendingRebuilds, loads,
                   remote, view, rendered, staleTicks, lastStale, prevIndex, gesture>>

InitPayload ==
    /\ InitialState
    /\ InitialData
    /\ remote \in PayloadRows

NextPayload == resolveRows

SpecPayload == InitPayload /\ [][NextPayload]_vars

\* C34: an operator whose metadata payload owns '__proto__', 'constructor'
\* or 'prototype' is stored under the fallback display name, whatever the
\* name in the payload.
C34_PollutingPayloadRejected ==
    lastOp = "resolveRows" =>
        \A i \in DOMAIN remote :
            remote[i].metadataJsonString.ownKeys \cap DangerousKeys # {}
                => operatorMetaMap[remote[i].id].name = defaultName(remote[i].id)

\* The parser of the operator details turns such a payload down.
DetailsParserRejects ==
    \A i \in DOMAIN remote :
        remote[i].metadataJsonString.ownKeys \cap DangerousKeys # {}
            => parseOperatorMetadata(remote[i].metadataJsonString) = NoValue

(***************************************************************************)
(* The frame on screen while playback is stopped.                          *)
(***************************************************************************)
\* C35: whenever playback is stopped and the timeline is not empty, the
\* frame on screen, which the slider shows, is the frame at currentIndex;
\* so it is right after pause(), when a setMetric or a rebuild would draw
\* the frame at currentIndex.
C35_StoppedShowsCurrentIndex ==
    (~ isPlaying /\ Len(timelineData) > 0) => els.sliderValue = currentIndex

(***************************************************************************)
(* The error state.                                                        *)
(***************************************************************************)
\* The error state is shown, the timeline is empty and no load is in
\* flight: the init() before failed and none has followed it.
InitFailed ==
    /\ ~ els.errorHidden
    /\ Len(timelineData) = 0
    /\ loads = <<>>

\* C36: from a failed init() on, as long as the error state is shown, the
\* timeline stays empty and no step draws a frame, whatever the controls
\* the user works, the filter toggle after an earlier load included.
C36_ErrorStateKeepsTimelineEmpty ==
    [][(InitFailed /\ ~ els'.errorHidden) =>
           /\ Len(timelineData') = 0
           /\ rendered' = -1]_vars

(***************************************************************************)
(* Re-initialization with the discovery as the code computes it: the race  *)
(* view is opened at any reading of the clock, left once the load has      *)
(* ended and opened again, and the filter is toggled at any moment.        *)
(***************************************************************************)
\* The remote holds a bucket of OpA of the start date with the larger stake
\* and one bucket of another operator.
RediscoverInputs ==
    {rows \in DiscoveryInputs :
        /\ Len(rows) = 2
        /\ rows[1] = Bucket(START_DATE, OpA, << <<5,0>>, <<2,0>> >>)
        /\ rows[2].operator # OpA}

InitRediscover ==
    /\ InitialState
    /\ InitialData
    /\ remote \in RediscoverInputs

\* A reading of the clock: no bucket of the remote is dated after it.
ClockReads(now) == \A i \in DOMAIN remote : remote[i].date <= now

\* The race view is opened when no earlier load is in flight.
NextRediscover ==
    \/ \E now \in Nows : ClockReads(now) /\ loads = <<>> /\ handleShowRaceAt(now)
    \/ handleBackToFromRace
    \/ \E k \in 1..MaxLoads : discoverBatchResp(k)
    \/ \E k \in 1..MaxLoads : metaResp(k, FALSE)
    \/ \E k \in 1..MaxLoads : historyResp(k, FALSE)
    \/ toggleFilter
    \/ rebuild

SpecRediscover == InitRediscover /\ [][NextRediscover]_vars

\* Every bucket names an operator of the list.
RefersTo(buckets, operatorIds) ==
    \A i \in DOMAIN buckets : buckets[i].operator \in Range(operatorIds)

\* C37: whenever the reconstruction runs, in the rebuild of a filter toggle
\* or at the end of a load, every stored raw bucket names an operator of the
\* stored discovered list, and the reconstruction does not end in a
\* TypeError; also in a rebuild that falls between the discovery and the
\* end of a second load.
C37_RawBucketsReferToDiscovered ==
    [][/\ (lastOp' = "rebuild" /\ Len(rawBuckets) > 0) =>
             /\ RefersTo(rawBuckets, allOperatorIds)
             /\ processTimeline(rawBuckets, allOperatorIds, operatorMetaMap,
                                filterDeprecated).result # "TypeError"
       /\ (lastOp' = "historyResp" /\ Len(loads') < Len(loads)) =>
             /\ RefersTo(rawBuckets', allOperatorIds')
             /\ els'.errorMsg # "TypeError"]_vars

(***************************************************************************)
(* The deferred rebuild in every interleaving: the filter toggled any      *)
(* number of times inside the deferral window, during playback, and        *)
(* across visits of the race view.                                         *)
(***************************************************************************)
\* The frames f and g are as many and carry the same dates.
SameDates(f, g) ==
    /\ Len(f) = Len(g)
    /\ \A i \in DOMAIN f : f[i].date = g[i].date

\* The frames of timeline are the frames processTimeline() produces from the
\* stored observations with the filter value filter.
FramesFromScratch(timeline, buckets, operatorIds, metaMap, filter) ==
    \/ Len(timeline) = 0
    \/ LET scratch == processTimeline(buckets, operatorIds, metaMap, filter)
       IN /\ scratch.result = "ok"
          /\ timeline = scratch.timeline

\* C38: once no rebuild is pending and no load is in flight, every frame of
\* the timeline is the frame a reconstruction from scratch produces with the
\* current filterDeprecated; a rebuild keeps the number of frames, their
\* dates, currentIndex and the play state.
C38_RebuildsSettleOnScratchTimeline ==
    [][/\ (pendingRebuilds' = 0 /\ loads' = <<>>) =>
              FramesFromScratch(timelineData', rawBuckets', allOperatorIds',
                                operatorMetaMap', filterDeprecated')
       /\ UNCHANGED details
       /\ lastOp' = "rebuild" =>
              /\ SameDates(timelineData, timelineData')
              /\ currentIndex' = currentIndex
              /\ isPlaying' = isPlaying]_vars

(***************************************************************************)
(* The operator-details view of the application: the card or link of an    *)
(* operator opens it, its first load runs through two requests, and the    *)
(* 30 s refresh interval is started when the load returns.  A handle of    *)
(* setInterval() is a positive number; details.intervals are the handles   *)
(* started and not cleared.                                                *)
(***************************************************************************)
\* if (state.detailsRefreshInterval) clearInterval(state.detailsRefreshInterval)
clearHeld(d) ==
    IF d.detailsRefreshInterval # 0
    THEN [d EXCEPT !.intervals = @ \ {d.detailsRefreshInterval}]
    ELSE d

\* state.detailsRefreshInterval = setInterval(...): the call k has returned
\* from refreshOperatorData(true), which catches whatever its requests throw.
startRefresh(d, k) ==
    LET handle == d.handles + 1
    IN [d EXCEPT !.detailsRefreshInterval = handle,
                 !.intervals = @ \cup {handle},
                 !.handles = handle,
                 !.calls = RemoveAt(@, k)]

\* The handlers of this view leave the race alone.
RaceUnchanged ==
    UNCHANGED <<timelineData, operatorMetaMap, rawBuckets, allOperatorIds,
                filterDeprecated, currentIndex, isPlaying, playbackSpeed,
                activeMetric, timer, hasInitialized, els, pendingTicks, delays,
                pendingRebuilds, loads, remote, rendered, staleTicks, lastStale,
                prevIndex, gesture>>

\* handleShowOperatorDetails(operatorId): a click on a card of the list or on
\* an operator link, then fetchAndRenderOperatorDetails() up to its await.
handleShowOperatorDetails(operatorId) ==
    /\ view \in {"list", "detail"}
    /\ Len(details.calls) < MaxCalls
    /\ view' = "detail"
    /\ details' = [clearHeld(details) EXCEPT
                       !.currentOperatorId = operatorId,
                       !.calls = Append(@, [pc |-> "fetchOperatorDetails"])]
    /\ lastOp' = "handleShowOperatorDetails"
    /\ RaceUnchanged

\* refreshOperatorData(true) resumes with the answer of fetchOperatorDetails:
\* on a failure it returns at once, else it asks for the Polygonscan history.
operatorDetailsResp(k, errors) ==
    /\ k \in DOMAIN details.calls
    /\ details.calls[k].pc = "fetchOperatorDetails"
    /\ details.handles < MaxHandles
    /\ details' = IF errors
                  THEN startRefresh(details, k)
                  ELSE [details EXCEPT !.calls[k].pc = "fetchPolygonscanHistory"]
    /\ lastOp' = "operatorDetailsResp"
    /\ UNCHANGED view
    /\ RaceUnchanged

\* refreshOperatorData(true) resumes with the Polygonscan history, or with its
\* failure, renders and returns.
polygonscanResp(k) ==
    /\ k \in DOMAIN details.calls
    /\ details.calls[k].pc = "fetchPolygonscanHistory"
    /\ details.handles < MaxHandles
    /\ details' = startRefresh(details, k)
    /\ lastOp' = "polygonscanResp"
    /\ UNCHANGED view
    /\ RaceUnchanged

\* The click handler of back-to-list-btn.
backToList ==
    /\ view = "detail"
    /\ view' = "list"
    /\ details' = clearHeld(details)
    /\ lastOp' = "backToList"
    /\ RaceUnchanged

InitDetails ==
    /\ InitialState
    /\ InitialData
    /\ remote = <<>>

NextDetails ==
    \/ \E operatorId \in {OpA, OpB} : handleShowOperatorDetails(operatorId)
    \/ \E k \in 1..MaxCalls, errors \in BOOLEAN : operatorDetailsResp(k, errors)
    \/ \E k \in 1..MaxCalls : polygonscanResp(k)
    \/ backToList

SpecDetails == InitDetails /\ [][NextDetails]_vars

\* C39: at most one refresh interval runs, none runs while the list view is
\* shown, and an interval that runs is the one held in
\* state.detailsRefreshInterval.
C39_OneRefreshIntervalHeld ==
    /\ Cardinality(details.intervals) <= 1
    /\ view = "list" => details.intervals = {}
    /\ details.intervals \subseteq {details.detailsRefreshInterval}


====
